---- MODULE Spec2Model ----
(***************************************************************************)
(* The staking contract of primitives/account/src/staking_contract.rs as a *)
(* state machine.  The contract's six fields are the state; every entry    *)
(* point of AccountTransactionInteraction / AccountInherentInteraction is  *)
(* an operator on a contract record that returns the contract the call     *)
(* leaves behind (also when it ends in Err or in a panic), its result and  *)
(* its receipt.                                                            *)
(*                                                                         *)
(* Option<T> is a sequence of length at most one: <<>> is None, <<x>> is   *)
(* Some(x).  A HashMap<Address, T> is a function Addresses -> Option<T>.   *)
(* The BTreeSet active_stake_sorted is the sequence of its elements in     *)
(* iteration order.                                                        *)
(***************************************************************************)
EXTENDS Integers, Sequences, FiniteSets, TLC

\* Largest Coin value (Coin arithmetic is overflow-checked, not wrapping).
MaxCoin == 2
\* Largest block height of a block, and of a block that retires stake.
MaxHeight == 3
MaxRetireHeight == 1
\* Number of transactions and inherents applied to a fresh contract.
MaxOps == 4

Addresses == {1, 2}
\* StakingTransactionData: a validator key and an optional reward address.
StakingData ==
    {[validator_key |-> 1, reward_address |-> <<>>],
     [validator_key |-> 2, reward_address |-> <<1>>]}
Coins == 0..MaxCoin
Heights == 0..MaxHeight
RetireHeights == 0..MaxRetireHeight

\* policy module: epoch length, unstaking delay, first macro block after h.
EPOCH_LENGTH == 2
UNSTAKING_DELAY == 1
macro_block_after(h) == ((h \div EPOCH_LENGTH) + 1) * EPOCH_LENGTH

----------------------------------------------------------------------------
\* Result<T, AccountError>
Ok(v) == [ok |-> TRUE, val |-> v, err |-> "Ok"]
Err(e) == [ok |-> FALSE, val |-> 0, err |-> e]

\* What a call leaves behind: the contract, Ok or the error, the receipt.
Ret(c, res, receipt) == [c |-> c, res |-> res, receipt |-> receipt]

\* Account::balance_add / balance_sub / balance_sufficient, Transaction::total_value
balance_add(a, b) == IF a + b > MaxCoin THEN Err("InvalidCoinValue") ELSE Ok(a + b)
balance_sub(a, b) == IF a < b THEN Err("InsufficientFunds") ELSE Ok(a - b)
balance_sufficient(b, v) == IF b < v THEN "InsufficientFunds" ELSE "Ok"
total_value(tx) == balance_add(tx.value, tx.fee)

----------------------------------------------------------------------------
\* impl PartialEq / Ord for ActiveStake
StakeEq(a, b) == a.balance = b.balance /\ a.staker_address = b.staker_address
\* StakeLess with the balances compared the other way round (lowest first).
StakeLessAscending(a, b) ==
    \/ a.balance < b.balance
    \/ (a.balance = b.balance /\ a.staker_address < b.staker_address)
StakeLess(a, b) ==
    \/ b.balance < a.balance
    \/ (a.balance = b.balance /\ a.staker_address < b.staker_address)

\* BTreeSet::remove / BTreeSet::insert under that order
BTreeRemove(s, x) == SelectSeq(s, LAMBDA e : ~StakeEq(e, x))
BTreeInsert(s, x) ==
    IF \E i \in 1..Len(s) : StakeEq(s[i], x) THEN s
    ELSE SelectSeq(s, LAMBDA e : StakeLess(e, x)) \o <<x>>
         \o SelectSeq(s, LAMBDA e : StakeLess(x, e))

ActiveStake(a, b, k, r) ==
    [staker_address |-> a, balance |-> b, validator_key |-> k, reward_address |-> r]
with_balance(s, b) == [s EXCEPT !.balance = b]
InactiveStake(b, t) == [balance |-> b, retire_time |-> t]
ActiveStakeReceipt(s) ==
    [validator_key |-> s.validator_key, reward_address |-> s.reward_address]
InactiveStakeReceipt(t) == [retire_time |-> t]
UnparkReceipt(cur, prev) == [current_epoch |-> cur, previous_epoch |-> prev]
SlashReceipt(n) == [newly_slashed |-> n]

\* impl Default for StakingContract
DefaultContract ==
    [balance |-> 0,
     active_stake_sorted |-> <<>>,
     active_stake_by_address |-> [a \in Addresses |-> <<>>],
     inactive_stake_by_address |-> [a \in Addresses |-> <<>>],
     current_epoch_parking |-> {},
     previous_epoch_parking |-> {}]

get_active_balance(c, a) ==
    IF c.active_stake_by_address[a] = <<>> THEN 0
    ELSE c.active_stake_by_address[a][1].balance
get_inactive_balance(c, a) ==
    IF c.inactive_stake_by_address[a] = <<>> THEN 0
    ELSE c.inactive_stake_by_address[a][1].balance

\* Replace the entry of staker in both active tables (remove old, insert new).
Reinsert(c, staker, old, new) ==
    [c EXCEPT !.active_stake_sorted = BTreeInsert(BTreeRemove(@, old), new),
              !.active_stake_by_address[staker] = <<new>>]

----------------------------------------------------------------------------
\* stake that keeps the validator key and reward address of an existing entry.
stake_keeps_old_key(c, staker, value, key, reward) ==
    LET r1 == balance_add(c.balance, value) IN
    IF ~r1.ok THEN Ret(c, r1.err, <<>>) ELSE
    LET c1 == [c EXCEPT !.balance = r1.val] IN
    IF c1.active_stake_by_address[staker] # <<>> THEN
        LET active_stake == c1.active_stake_by_address[staker][1]
            c2 == [c1 EXCEPT !.active_stake_by_address[staker] = <<>>]
            r2 == balance_add(active_stake.balance, value) IN
        IF ~r2.ok THEN Ret(c2, r2.err, <<>>) ELSE
        Ret(Reinsert(c2, staker, active_stake, with_balance(active_stake, r2.val)),
            "Ok", <<ActiveStakeReceipt(active_stake)>>)
    ELSE
        LET new == ActiveStake(staker, value, key, reward) IN
        Ret([c1 EXCEPT !.active_stake_sorted = BTreeInsert(@, new),
                       !.active_stake_by_address[staker] = <<new>>],
            "Ok", <<>>)

\* stake that credits the contract's balance up to the maximum instead of
\* failing.
stake_saturating(c, staker, value, key, reward) ==
    LET r1 == balance_add(c.balance, value)
        c1 == [c EXCEPT !.balance = IF r1.ok THEN r1.val ELSE MaxCoin] IN
    IF c1.active_stake_by_address[staker] # <<>> THEN
        LET active_stake == c1.active_stake_by_address[staker][1]
            c2 == [c1 EXCEPT !.active_stake_by_address[staker] = <<>>]
            r2 == balance_add(active_stake.balance, value) IN
        IF ~r2.ok THEN Ret(c2, r2.err, <<>>) ELSE
        Ret(Reinsert(c2, staker, active_stake,
                     ActiveStake(active_stake.staker_address, r2.val, key, reward)),
            "Ok", <<ActiveStakeReceipt(active_stake)>>)
    ELSE
        LET new == ActiveStake(staker, value, key, reward) IN
        Ret([c1 EXCEPT !.active_stake_sorted = BTreeInsert(@, new),
                       !.active_stake_by_address[staker] = <<new>>],
            "Ok", <<>>)

stake(c, staker, value, key, reward) ==
    LET r1 == balance_add(c.balance, value) IN
    IF ~r1.ok THEN Ret(c, r1.err, <<>>) ELSE
    LET c1 == [c EXCEPT !.balance = r1.val] IN
    IF c1.active_stake_by_address[staker] # <<>> THEN
        LET active_stake == c1.active_stake_by_address[staker][1]
            c2 == [c1 EXCEPT !.active_stake_by_address[staker] = <<>>]
            r2 == balance_add(active_stake.balance, value) IN
        IF ~r2.ok THEN Ret(c2, r2.err, <<>>) ELSE
        Ret(Reinsert(c2, staker, active_stake,
                     ActiveStake(active_stake.staker_address, r2.val, key, reward)),
            "Ok", <<ActiveStakeReceipt(active_stake)>>)
    ELSE
        LET new == ActiveStake(staker, value, key, reward) IN
        Ret([c1 EXCEPT !.active_stake_sorted = BTreeInsert(@, new),
                       !.active_stake_by_address[staker] = <<new>>],
            "Ok", <<>>)

revert_stake(c, staker, value, receipt) ==
    LET r1 == balance_sub(c.balance, value) IN
    IF ~r1.ok THEN Ret(c, r1.err, <<>>) ELSE
    LET c1 == [c EXCEPT !.balance = r1.val] IN
    IF c1.active_stake_by_address[staker] = <<>>
    THEN Ret(c1, "InvalidForRecipient", <<>>) ELSE
    LET active_stake == c1.active_stake_by_address[staker][1] IN
    IF active_stake.balance > value THEN
        IF receipt = <<>> THEN Ret(c1, "InvalidReceipt", <<>>) ELSE
        Ret(Reinsert(c1, staker, active_stake,
                     ActiveStake(active_stake.staker_address,
                                 active_stake.balance - value,
                                 receipt[1].validator_key,
                                 receipt[1].reward_address)),
            "Ok", <<>>)
    ELSE IF active_stake.balance # value THEN Ret(c1, "Panic", <<>>)
    ELSE IF receipt # <<>> THEN Ret(c1, "InvalidReceipt", <<>>)
    ELSE Ret([c1 EXCEPT !.active_stake_sorted = BTreeRemove(@, active_stake),
                        !.active_stake_by_address[staker] = <<>>],
             "Ok", <<>>)

\* unpark_sender that does not deduct the fee from the active stake.
unpark_sender_keeps_fee(c, staker, total, fee) ==
    LET r1 == balance_sub(c.balance, total) IN
    IF ~r1.ok THEN Ret(c, r1.err, <<>>) ELSE
    LET c1 == [c EXCEPT !.balance = r1.val] IN
    IF c1.active_stake_by_address[staker] = <<>>
    THEN Ret(c1, "InvalidForSender", <<>>) ELSE
    LET active_stake == c1.active_stake_by_address[staker][1] IN
    IF active_stake.balance # total
    THEN Ret([c1 EXCEPT !.active_stake_by_address[staker] = <<>>,
                        !.active_stake_sorted = BTreeRemove(@, active_stake)],
             "InvalidForSender", <<>>)
    ELSE Ret(c1, "Ok", <<>>)

unpark_sender(c, staker, total, fee) ==
    LET r1 == balance_sub(c.balance, total) IN
    IF ~r1.ok THEN Ret(c, r1.err, <<>>) ELSE
    LET c1 == [c EXCEPT !.balance = r1.val] IN
    IF c1.active_stake_by_address[staker] = <<>>
    THEN Ret(c1, "InvalidForSender", <<>>) ELSE
    LET active_stake == c1.active_stake_by_address[staker][1]
        c2 == [c1 EXCEPT !.active_stake_by_address[staker] = <<>>,
                         !.active_stake_sorted = BTreeRemove(@, active_stake)] IN
    IF active_stake.balance # total THEN Ret(c2, "InvalidForSender", <<>>) ELSE
    LET r2 == balance_sub(active_stake.balance, fee) IN
    IF ~r2.ok THEN Ret(c2, r2.err, <<>>) ELSE
    LET new == with_balance(active_stake, r2.val) IN
    Ret([c2 EXCEPT !.active_stake_sorted = BTreeInsert(@, new),
                   !.active_stake_by_address[staker] = <<new>>],
        "Ok", <<>>)

revert_unpark_sender(c, staker, total, fee) ==
    LET r1 == balance_add(c.balance, total) IN
    IF ~r1.ok THEN Ret(c, r1.err, <<>>) ELSE
    LET c1 == [c EXCEPT !.balance = r1.val] IN
    IF c1.active_stake_by_address[staker] = <<>>
    THEN Ret(c1, "InvalidForSender", <<>>) ELSE
    LET active_stake == c1.active_stake_by_address[staker][1]
        c2 == [c1 EXCEPT !.active_stake_by_address[staker] = <<>>,
                         !.active_stake_sorted = BTreeRemove(@, active_stake)]
        r2 == balance_add(active_stake.balance, fee) IN
    IF ~r2.ok THEN Ret(c2, r2.err, <<>>) ELSE
    LET new == with_balance(active_stake, r2.val) IN
    IF new.balance # total THEN Ret(c2, "InvalidForSender", <<>>) ELSE
    Ret([c2 EXCEPT !.active_stake_sorted = BTreeInsert(@, new),
                   !.active_stake_by_address[staker] = <<new>>],
        "Ok", <<>>)

\* unpark_recipient without the credit of value to the contract's balance.
unpark_recipient_no_credit(c, staker, value) ==
    LET current_epoch == staker \in c.current_epoch_parking
        previous_epoch == staker \in c.previous_epoch_parking
        c1 == [c EXCEPT !.current_epoch_parking = @ \ {staker},
                        !.previous_epoch_parking = @ \ {staker}] IN
    IF ~current_epoch /\ ~previous_epoch
    THEN Ret(c1, "InvalidForRecipient", <<>>)
    ELSE Ret(c1, "Ok", <<UnparkReceipt(current_epoch, previous_epoch)>>)

\* unpark_recipient with the two booleans of the receipt exchanged.
unpark_recipient_swapped_receipt(c, staker, value) ==
    LET r1 == balance_add(c.balance, value) IN
    IF ~r1.ok THEN Ret(c, r1.err, <<>>) ELSE
    LET current_epoch == staker \in c.current_epoch_parking
        previous_epoch == staker \in c.previous_epoch_parking
        c1 == [c EXCEPT !.balance = r1.val,
                        !.current_epoch_parking = @ \ {staker},
                        !.previous_epoch_parking = @ \ {staker}] IN
    IF ~current_epoch /\ ~previous_epoch
    THEN Ret(c1, "InvalidForRecipient", <<>>)
    ELSE Ret(c1, "Ok", <<UnparkReceipt(previous_epoch, current_epoch)>>)

\* unpark_recipient taking the staker out of current_epoch_parking only.
unpark_recipient_current_only(c, staker, value) ==
    LET r1 == balance_add(c.balance, value) IN
    IF ~r1.ok THEN Ret(c, r1.err, <<>>) ELSE
    LET current_epoch == staker \in c.current_epoch_parking
        previous_epoch == staker \in c.previous_epoch_parking
        c1 == [c EXCEPT !.balance = r1.val,
                        !.current_epoch_parking = @ \ {staker}] IN
    IF ~current_epoch /\ ~previous_epoch
    THEN Ret(c1, "InvalidForRecipient", <<>>)
    ELSE Ret(c1, "Ok", <<UnparkReceipt(current_epoch, previous_epoch)>>)

unpark_recipient(c, staker, value) ==
    LET r1 == balance_add(c.balance, value) IN
    IF ~r1.ok THEN Ret(c, r1.err, <<>>) ELSE
    LET current_epoch == staker \in c.current_epoch_parking
        previous_epoch == staker \in c.previous_epoch_parking
        c1 == [c EXCEPT !.balance = r1.val,
                        !.current_epoch_parking = @ \ {staker},
                        !.previous_epoch_parking = @ \ {staker}] IN
    IF ~current_epoch /\ ~previous_epoch
    THEN Ret(c1, "InvalidForRecipient", <<>>)
    ELSE Ret(c1, "Ok", <<UnparkReceipt(current_epoch, previous_epoch)>>)

revert_unpark_recipient(c, staker, value, receipt) ==
    LET r1 == balance_sub(c.balance, value) IN
    IF ~r1.ok THEN Ret(c, r1.err, <<>>) ELSE
    Ret([c EXCEPT !.balance = r1.val,
                  !.current_epoch_parking =
                      IF receipt.current_epoch THEN @ \cup {staker} ELSE @,
                  !.previous_epoch_parking =
                      IF receipt.previous_epoch THEN @ \cup {staker} ELSE @],
        "Ok", <<>>)

\* retire_sender taking a staker whose whole active stake is retired out of
\* the parking sets.
retire_sender_unparks(c, staker, total) ==
    LET r1 == balance_sub(c.balance, total) IN
    IF ~r1.ok THEN Ret(c, r1.err, <<>>) ELSE
    LET c1 == [c EXCEPT !.balance = r1.val] IN
    IF c1.active_stake_by_address[staker] = <<>>
    THEN Ret(c1, "InvalidForSender", <<>>) ELSE
    LET active_stake == c1.active_stake_by_address[staker][1]
        c2 == [c1 EXCEPT !.active_stake_by_address[staker] = <<>>,
                         !.active_stake_sorted = BTreeRemove(@, active_stake)] IN
    IF active_stake.balance > total THEN
        LET new == ActiveStake(staker, active_stake.balance - total,
                               active_stake.validator_key,
                               active_stake.reward_address) IN
        Ret([c2 EXCEPT !.active_stake_sorted = BTreeInsert(@, new),
                       !.active_stake_by_address[staker] = <<new>>],
            "Ok", <<>>)
    ELSE IF active_stake.balance # total THEN Ret(c2, "Panic", <<>>)
    ELSE Ret([c2 EXCEPT !.current_epoch_parking = @ \ {staker},
                        !.previous_epoch_parking = @ \ {staker}],
             "Ok", <<ActiveStakeReceipt(active_stake)>>)

\* retire_sender comparing with >= : an entry retired in full stays in the
\* tables with balance 0 and no receipt is returned.
retire_sender_keeps_entry(c, staker, total) ==
    LET r1 == balance_sub(c.balance, total) IN
    IF ~r1.ok THEN Ret(c, r1.err, <<>>) ELSE
    LET c1 == [c EXCEPT !.balance = r1.val] IN
    IF c1.active_stake_by_address[staker] = <<>>
    THEN Ret(c1, "InvalidForSender", <<>>) ELSE
    LET active_stake == c1.active_stake_by_address[staker][1]
        c2 == [c1 EXCEPT !.active_stake_by_address[staker] = <<>>,
                         !.active_stake_sorted = BTreeRemove(@, active_stake)] IN
    IF active_stake.balance >= total THEN
        LET new == ActiveStake(staker, active_stake.balance - total,
                               active_stake.validator_key,
                               active_stake.reward_address) IN
        Ret([c2 EXCEPT !.active_stake_sorted = BTreeInsert(@, new),
                       !.active_stake_by_address[staker] = <<new>>],
            "Ok", <<>>)
    ELSE Ret(c2, "Panic", <<>>)

retire_sender(c, staker, total) ==
    LET r1 == balance_sub(c.balance, total) IN
    IF ~r1.ok THEN Ret(c, r1.err, <<>>) ELSE
    LET c1 == [c EXCEPT !.balance = r1.val] IN
    IF c1.active_stake_by_address[staker] = <<>>
    THEN Ret(c1, "InvalidForSender", <<>>) ELSE
    LET active_stake == c1.active_stake_by_address[staker][1]
        c2 == [c1 EXCEPT !.active_stake_by_address[staker] = <<>>,
                         !.active_stake_sorted = BTreeRemove(@, active_stake)] IN
    IF active_stake.balance > total THEN
        LET new == ActiveStake(staker, active_stake.balance - total,
                               active_stake.validator_key,
                               active_stake.reward_address) IN
        Ret([c2 EXCEPT !.active_stake_sorted = BTreeInsert(@, new),
                       !.active_stake_by_address[staker] = <<new>>],
            "Ok", <<>>)
    ELSE IF active_stake.balance # total THEN Ret(c2, "Panic", <<>>)
    ELSE Ret(c2, "Ok", <<ActiveStakeReceipt(active_stake)>>)

revert_retire_sender(c, staker, total, receipt) ==
    LET r1 == balance_add(c.balance, total) IN
    IF ~r1.ok THEN Ret(c, r1.err, <<>>) ELSE
    LET c1 == [c EXCEPT !.balance = r1.val] IN
    IF c1.active_stake_by_address[staker] # <<>> THEN
        LET active_stake == c1.active_stake_by_address[staker][1]
            c2 == [c1 EXCEPT !.active_stake_by_address[staker] = <<>>] IN
        IF receipt # <<>> THEN Ret(c2, "InvalidReceipt", <<>>) ELSE
        LET r2 == balance_add(active_stake.balance, total) IN
        IF ~r2.ok THEN Ret(c2, r2.err, <<>>) ELSE
        Ret(Reinsert(c2, staker, active_stake,
                     ActiveStake(staker, r2.val, active_stake.validator_key,
                                 active_stake.reward_address)),
            "Ok", <<>>)
    ELSE
        IF receipt = <<>> THEN Ret(c1, "InvalidReceipt", <<>>) ELSE
        LET new == ActiveStake(staker, total, receipt[1].validator_key,
                               receipt[1].reward_address) IN
        Ret([c1 EXCEPT !.active_stake_sorted = BTreeInsert(@, new),
                       !.active_stake_by_address[staker] = <<new>>],
            "Ok", <<>>)

\* retire_recipient adding to an existing inactive entry without resetting
\* its retire_time.
retire_recipient_keeps_time(c, staker, value, block_height) ==
    LET r1 == balance_add(c.balance, value) IN
    IF ~r1.ok THEN Ret(c, r1.err, <<>>) ELSE
    LET c1 == [c EXCEPT !.balance = r1.val] IN
    IF c1.inactive_stake_by_address[staker] # <<>> THEN
        LET inactive_stake == c1.inactive_stake_by_address[staker][1]
            c2 == [c1 EXCEPT !.inactive_stake_by_address[staker] = <<>>]
            r2 == balance_add(inactive_stake.balance, value) IN
        IF ~r2.ok THEN Ret(c2, r2.err, <<>>) ELSE
        Ret([c2 EXCEPT !.inactive_stake_by_address[staker] =
                           <<InactiveStake(r2.val, inactive_stake.retire_time)>>],
            "Ok", <<InactiveStakeReceipt(inactive_stake.retire_time)>>)
    ELSE
        Ret([c1 EXCEPT !.inactive_stake_by_address[staker] =
                           <<InactiveStake(value, block_height)>>],
            "Ok", <<>>)

retire_recipient(c, staker, value, block_height) ==
    LET r1 == balance_add(c.balance, value) IN
    IF ~r1.ok THEN Ret(c, r1.err, <<>>) ELSE
    LET c1 == [c EXCEPT !.balance = r1.val] IN
    IF c1.inactive_stake_by_address[staker] # <<>> THEN
        LET inactive_stake == c1.inactive_stake_by_address[staker][1]
            c2 == [c1 EXCEPT !.inactive_stake_by_address[staker] = <<>>]
            r2 == balance_add(inactive_stake.balance, value) IN
        IF ~r2.ok THEN Ret(c2, r2.err, <<>>) ELSE
        Ret([c2 EXCEPT !.inactive_stake_by_address[staker] =
                           <<InactiveStake(r2.val, block_height)>>],
            "Ok", <<InactiveStakeReceipt(inactive_stake.retire_time)>>)
    ELSE
        Ret([c1 EXCEPT !.inactive_stake_by_address[staker] =
                           <<InactiveStake(value, block_height)>>],
            "Ok", <<>>)

revert_retire_recipient(c, staker, value, receipt) ==
    LET r1 == balance_sub(c.balance, value) IN
    IF ~r1.ok THEN Ret(c, r1.err, <<>>) ELSE
    LET c1 == [c EXCEPT !.balance = r1.val] IN
    IF c1.inactive_stake_by_address[staker] = <<>>
    THEN Ret(c1, "InvalidForRecipient", <<>>) ELSE
    LET inactive_stake == c1.inactive_stake_by_address[staker][1]
        c2 == [c1 EXCEPT !.inactive_stake_by_address[staker] = <<>>] IN
    IF inactive_stake.balance > value THEN
        IF receipt = <<>> THEN Ret(c2, "InvalidReceipt", <<>>) ELSE
        Ret([c2 EXCEPT !.inactive_stake_by_address[staker] =
                           <<InactiveStake(inactive_stake.balance - value,
                                           receipt[1].retire_time)>>],
            "Ok", <<>>)
    ELSE IF receipt # <<>> THEN Ret(c2, "InvalidReceipt", <<>>)
    ELSE Ret(c2, "Ok", <<>>)

\* unstake that does not put back what is left of a partly withdrawn entry.
unstake_drops_remainder(c, staker, total) ==
    LET r1 == balance_sub(c.balance, total) IN
    IF ~r1.ok THEN Ret(c, r1.err, <<>>) ELSE
    LET c1 == [c EXCEPT !.balance = r1.val] IN
    IF c1.inactive_stake_by_address[staker] = <<>>
    THEN Ret(c1, "InvalidForSender", <<>>) ELSE
    LET inactive_stake == c1.inactive_stake_by_address[staker][1]
        c2 == [c1 EXCEPT !.inactive_stake_by_address[staker] = <<>>] IN
    IF inactive_stake.balance > total THEN Ret(c2, "Ok", <<>>)
    ELSE IF inactive_stake.balance # total THEN Ret(c2, "Panic", <<>>)
    ELSE Ret(c2, "Ok", <<InactiveStakeReceipt(inactive_stake.retire_time)>>)

unstake(c, staker, total) ==
    LET r1 == balance_sub(c.balance, total) IN
    IF ~r1.ok THEN Ret(c, r1.err, <<>>) ELSE
    LET c1 == [c EXCEPT !.balance = r1.val] IN
    IF c1.inactive_stake_by_address[staker] = <<>>
    THEN Ret(c1, "InvalidForSender", <<>>) ELSE
    LET inactive_stake == c1.inactive_stake_by_address[staker][1]
        c2 == [c1 EXCEPT !.inactive_stake_by_address[staker] = <<>>] IN
    IF inactive_stake.balance > total THEN
        Ret([c2 EXCEPT !.inactive_stake_by_address[staker] =
                           <<InactiveStake(inactive_stake.balance - total,
                                           inactive_stake.retire_time)>>],
            "Ok", <<>>)
    ELSE IF inactive_stake.balance # total THEN Ret(c2, "Panic", <<>>)
    ELSE Ret(c2, "Ok", <<InactiveStakeReceipt(inactive_stake.retire_time)>>)

revert_unstake(c, staker, total, receipt) ==
    LET r1 == balance_add(c.balance, total) IN
    IF ~r1.ok THEN Ret(c, r1.err, <<>>) ELSE
    LET c1 == [c EXCEPT !.balance = r1.val] IN
    IF c1.inactive_stake_by_address[staker] # <<>> THEN
        LET inactive_stake == c1.inactive_stake_by_address[staker][1]
            c2 == [c1 EXCEPT !.inactive_stake_by_address[staker] = <<>>] IN
        IF receipt # <<>> THEN Ret(c2, "InvalidReceipt", <<>>) ELSE
        LET r2 == balance_add(inactive_stake.balance, total) IN
        IF ~r2.ok THEN Ret(c2, r2.err, <<>>) ELSE
        Ret([c2 EXCEPT !.inactive_stake_by_address[staker] =
                           <<InactiveStake(r2.val, inactive_stake.retire_time)>>],
            "Ok", <<>>)
    ELSE
        IF receipt = <<>> THEN Ret(c1, "InvalidReceipt", <<>>) ELSE
        Ret([c1 EXCEPT !.inactive_stake_by_address[staker] =
                           <<InactiveStake(total, receipt[1].retire_time)>>],
            "Ok", <<>>)

----------------------------------------------------------------------------
(* Validator selection.  policy::SLOTS, vrf::AliasMethod, VrfSeed::rng and  *)
(* SlotsBuilder are taken from the specification: an alias table over       *)
(* integer weights, built with integer arithmetic (weights scaled by n and  *)
(* compared against their sum), sampled by a uniform index and a uniform    *)
(* fraction; the seed is opaque and stands for the stream of draws it       *)
(* yields.  Over an empty or all-zero weight sequence sampling is           *)
(* undefined: the lookup may panic or yield any index.                      *)
SLOTS == 2

Slot(validator_key, staker_address, reward_address) ==
    [validator_key |-> validator_key, staker_address |-> staker_address,
     reward_address |-> reward_address]

RECURSIVE SumSeq(_)
SumSeq(w) == IF w = <<>> THEN 0 ELSE Head(w) + SumSeq(Tail(w))

Min(S) == CHOOSE x \in S : \A y \in S : x <= y

\* prob[i] = -1 marks an index not yet placed in the table.
RECURSIVE AliasFill(_, _, _, _)
AliasFill(scaled, prob, alias, total) ==
    LET n == Len(scaled)
        small == {i \in 1..n : prob[i] = -1 /\ scaled[i] < total}
        large == {i \in 1..n : prob[i] = -1 /\ scaled[i] >= total} IN
    IF small = {} \/ large = {}
    THEN [prob |-> [i \in 1..n |-> IF prob[i] = -1 THEN total ELSE prob[i]],
          alias |-> alias, total |-> total]
    ELSE LET s == Min(small)
             l == Min(large) IN
         AliasFill([scaled EXCEPT ![l] = @ + scaled[s] - total],
                   [prob EXCEPT ![s] = scaled[s]],
                   [alias EXCEPT ![s] = l], total)

\* AliasMethod::new(weights)
AliasMethod(weights) ==
    LET n == Len(weights) IN
    AliasFill([i \in 1..n |-> weights[i] * n], [i \in 1..n |-> -1],
              [i \in 1..n |-> i], SumSeq(weights))

AliasDefined(weights) == weights # <<>> /\ SumSeq(weights) > 0

\* lookup.sample(rng): draw = <<x, y>>, the two uniform values the stream yields
sample(lookup, draw) ==
    LET i == (draw[1] % Len(lookup.prob)) + 1
        u == draw[2] % lookup.total IN
    IF u < lookup.prob[i] THEN i ELSE lookup.alias[i]

\* The seeds: the draws of the SLOTS samples.
Seeds == [1..SLOTS -> (0..(Cardinality(Addresses) - 1)) \X (0..(MaxCoin - 1))]

Weights(c) == [i \in 1..Len(c.active_stake_sorted) |-> c.active_stake_sorted[i].balance]

\* What the lookup can do for the SLOTS samples: the indices it yields
\* (index n + 1 stands for any index outside the vector), or a panic.
Lookups(weights, seed) ==
    IF AliasDefined(weights)
    THEN {[panic |-> FALSE,
           index |-> [k \in 1..SLOTS |-> sample(AliasMethod(weights), seed[k])]]}
    ELSE {[panic |-> TRUE, index |-> [k \in 1..SLOTS |-> 0]]}
         \cup {[panic |-> FALSE, index |-> ix] :
                  ix \in [1..SLOTS -> 1..(Len(weights) + 1)]}

\* select_validators with the lookup's behaviour given: indexing
\* potential_validators outside its bounds panics.
select_validators(c, lookup) ==
    LET potential_validators == c.active_stake_sorted IN
    IF lookup.panic \/ \E k \in 1..SLOTS : lookup.index[k] > Len(potential_validators)
    THEN [res |-> "Panic", slots |-> <<>>]
    ELSE [res |-> "Ok",
          slots |-> [k \in 1..SLOTS |->
                       LET active_stake == potential_validators[lookup.index[k]] IN
                       Slot(active_stake.validator_key, active_stake.staker_address,
                            active_stake.reward_address)]]

----------------------------------------------------------------------------
(* impl Serialize / Deserialize for StakingContract.  The encoding is a     *)
(* sequence of numbers: a Coin, a u32, an Address and a key take one place  *)
(* each, an Option is 0 or 1 followed by the value, a struct is its fields  *)
(* in declaration order, a set is its length followed by its elements in    *)
(* the order the HashSet iterator yields.                                   *)
ser_reward_address(r) == IF r = <<>> THEN <<0>> ELSE <<1, r[1]>>
ser_active_stake(s) ==
    <<s.staker_address, s.balance, s.validator_key>> \o ser_reward_address(s.reward_address)
ser_inactive_stake(i) == <<i.balance, i.retire_time>>
ser_option_inactive_stake(o) ==
    IF o = <<>> THEN <<0>> ELSE <<1>> \o ser_inactive_stake(o[1])
ser_set(order) == <<Len(order)>> \o order

RECURSIVE Concat(_)
Concat(ss) == IF ss = <<>> THEN <<>> ELSE Head(ss) \o Concat(Tail(ss))

\* The active stakes without the inactive entry of the same address.
ActiveSectionWithoutInactive(c) ==
    [i \in 1..Len(c.active_stake_sorted) |->
        [active_stake |-> c.active_stake_sorted[i], inactive_stake |-> <<>>]]
\* The active stakes in the order of active_stake_sorted, each with the
\* inactive entry of the same address, if any.
ActiveSection(c) ==
    [i \in 1..Len(c.active_stake_sorted) |->
        [active_stake |-> c.active_stake_sorted[i],
         inactive_stake |->
             c.inactive_stake_by_address[c.active_stake_sorted[i].staker_address]]]

\* sort_by staker address (the keys of a map are distinct, so the later
\* comparisons never decide)
RECURSIVE SortAddresses(_)
SortAddresses(S) ==
    IF S = {} THEN <<>>
    ELSE LET m == CHOOSE x \in S : \A y \in S : x <= y IN
         <<m>> \o SortAddresses(S \ {m})

\* The remaining inactive stakes: those of addresses without active stake.
OrphanSection(c) ==
    LET order == SortAddresses({a \in Addresses :
                     /\ c.inactive_stake_by_address[a] # <<>>
                     /\ c.active_stake_by_address[a] = <<>>}) IN
    [j \in 1..Len(order) |->
        [staker_address |-> order[j],
         inactive_stake |-> c.inactive_stake_by_address[order[j]][1]]]

\* current_order, previous_order: the iteration orders of the parking sets
serialize(c, current_order, previous_order) ==
    LET active == ActiveSection(c)
        orphans == OrphanSection(c) IN
    <<c.balance>>
    \o <<Len(active)>>
    \o Concat([i \in 1..Len(active) |->
                  ser_active_stake(active[i].active_stake)
                  \o ser_option_inactive_stake(active[i].inactive_stake)])
    \o <<Len(orphans)>>
    \o Concat([j \in 1..Len(orphans) |->
                  <<orphans[j].staker_address>>
                  \o ser_inactive_stake(orphans[j].inactive_stake)])
    \o ser_set(current_order)
    \o ser_set(previous_order)

\* The loops of deserialize, reading from position pos.
RECURSIVE read_active_stakes(_, _, _, _)
read_active_stakes(bytes, pos, count, c) ==
    IF count = 0 THEN [c |-> c, pos |-> pos] ELSE
    LET has_reward == bytes[pos + 3]
        active_stake == ActiveStake(bytes[pos], bytes[pos + 1], bytes[pos + 2],
                                    IF has_reward = 1 THEN <<bytes[pos + 4]>> ELSE <<>>)
        p1 == pos + 4 + has_reward
        has_inactive == bytes[p1]
        c1 == [c EXCEPT !.active_stake_sorted = BTreeInsert(@, active_stake),
                        !.active_stake_by_address[active_stake.staker_address] =
                            <<active_stake>>]
        c2 == IF has_inactive = 1
              THEN [c1 EXCEPT !.inactive_stake_by_address[active_stake.staker_address] =
                                  <<InactiveStake(bytes[p1 + 1], bytes[p1 + 2])>>]
              ELSE c1 IN
    read_active_stakes(bytes, p1 + 1 + 2 * has_inactive, count - 1, c2)

RECURSIVE read_inactive_stakes(_, _, _, _)
read_inactive_stakes(bytes, pos, count, c) ==
    IF count = 0 THEN [c |-> c, pos |-> pos] ELSE
    read_inactive_stakes(bytes, pos + 3, count - 1,
        [c EXCEPT !.inactive_stake_by_address[bytes[pos]] =
                      <<InactiveStake(bytes[pos + 1], bytes[pos + 2])>>])

read_set(bytes, pos) ==
    [set |-> {bytes[pos + k] : k \in 1..bytes[pos]}, pos |-> pos + 1 + bytes[pos]]

\* deserialize, applied to what serialize wrote
deserialize(bytes) ==
    LET a == read_active_stakes(bytes, 3, bytes[2],
                                [DefaultContract EXCEPT !.balance = bytes[1]])
        o == read_inactive_stakes(bytes, a.pos + 1, bytes[a.pos], a.c)
        current_epoch_parking_ == read_set(bytes, o.pos)
        last_epoch_parking == read_set(bytes, current_epoch_parking_.pos) IN
    [o.c EXCEPT !.current_epoch_parking = current_epoch_parking_.set,
                !.previous_epoch_parking = last_epoch_parking.set]

----------------------------------------------------------------------------
(* A transaction, as far as the contract reads it: ty is "Stake" (sender #  *)
(* recipient, incoming), "Unstake" (sender # recipient, outgoing), or the   *)
(* StakingTransactionType of a self transaction's data ("Retire", "Unpark");*)
(* signer is transaction.sender of a Stake and get_signer(transaction) of   *)
(* the others; validator_key and reward_address are the Stake's payload.    *)
Transaction(ty, signer, value, fee, key, reward) ==
    [ty |-> ty, signer |-> signer, value |-> value, fee |-> fee,
     validator_key |-> key, reward_address |-> reward]

\* transaction.sender != transaction.recipient
NotSelf(tx) == tx.ty \in {"Stake", "Unstake"}

commit_incoming_transaction(c, tx, block_height) ==
    IF NotSelf(tx)
    THEN stake(c, tx.signer, tx.value, tx.validator_key, tx.reward_address)
    ELSE IF tx.ty = "Retire"
    THEN retire_recipient(c, tx.signer, tx.value, block_height)
    ELSE unpark_recipient(c, tx.signer, tx.value)

revert_incoming_transaction(c, tx, receipt) ==
    IF NotSelf(tx) THEN revert_stake(c, tx.signer, tx.value, receipt)
    ELSE IF tx.ty = "Retire"
    THEN revert_retire_recipient(c, tx.signer, tx.value, receipt)
    ELSE IF receipt = <<>> THEN Ret(c, "InvalidReceipt", <<>>)
    ELSE revert_unpark_recipient(c, tx.signer, tx.value, receipt[1])

\* The unstake delay is over one block too late.
unstake_delay_pending_off_by_one(inactive_stake, block_height) ==
    block_height <= macro_block_after(inactive_stake.retire_time) + UNSTAKING_DELAY
\* "Check unstake delay": the delay after retire_time is not over at block_height.
unstake_delay_pending(inactive_stake, block_height) ==
    block_height < macro_block_after(inactive_stake.retire_time) + UNSTAKING_DELAY

\* check_outgoing_transaction admitting the Unpark of a staker who is in
\* neither parking set.
check_outgoing_transaction_without_parking(c, tx, block_height) ==
    IF NotSelf(tx) THEN
        IF c.inactive_stake_by_address[tx.signer] = <<>> THEN "InvalidForSender" ELSE
        LET inactive_stake == c.inactive_stake_by_address[tx.signer][1] IN
        IF unstake_delay_pending(inactive_stake, block_height)
        THEN "InvalidForSender"
        ELSE IF ~total_value(tx).ok THEN total_value(tx).err
        ELSE balance_sufficient(inactive_stake.balance, total_value(tx).val)
    ELSE
        IF c.active_stake_by_address[tx.signer] = <<>> THEN "InvalidForSender" ELSE
        LET active_stake == c.active_stake_by_address[tx.signer][1] IN
        IF ~total_value(tx).ok THEN total_value(tx).err
        ELSE IF tx.ty = "Retire"
        THEN balance_sufficient(active_stake.balance, total_value(tx).val)
        ELSE IF active_stake.balance # total_value(tx).val THEN "InvalidForSender"
        ELSE "Ok"

check_outgoing_transaction(c, tx, block_height) ==
    IF NotSelf(tx) THEN
        IF c.inactive_stake_by_address[tx.signer] = <<>> THEN "InvalidForSender" ELSE
        LET inactive_stake == c.inactive_stake_by_address[tx.signer][1] IN
        IF unstake_delay_pending(inactive_stake, block_height)
        THEN "InvalidForSender"
        ELSE IF ~total_value(tx).ok THEN total_value(tx).err
        ELSE balance_sufficient(inactive_stake.balance, total_value(tx).val)
    ELSE
        IF c.active_stake_by_address[tx.signer] = <<>> THEN "InvalidForSender" ELSE
        LET active_stake == c.active_stake_by_address[tx.signer][1] IN
        IF ~total_value(tx).ok THEN total_value(tx).err
        ELSE IF tx.ty = "Retire"
        THEN balance_sufficient(active_stake.balance, total_value(tx).val)
        ELSE IF active_stake.balance # total_value(tx).val THEN "InvalidForSender"
        ELSE IF tx.signer \notin c.current_epoch_parking
                /\ tx.signer \notin c.previous_epoch_parking
        THEN "InvalidForSender"
        ELSE "Ok"

commit_outgoing_transaction(c, tx, block_height) ==
    LET chk == check_outgoing_transaction(c, tx, block_height) IN
    IF chk # "Ok" THEN Ret(c, chk, <<>>)
    ELSE IF NotSelf(tx) THEN unstake(c, tx.signer, total_value(tx).val)
    ELSE IF tx.ty = "Retire" THEN retire_sender(c, tx.signer, total_value(tx).val)
    ELSE unpark_sender(c, tx.signer, total_value(tx).val, tx.fee)

revert_outgoing_transaction(c, tx, receipt) ==
    IF ~total_value(tx).ok THEN Ret(c, total_value(tx).err, <<>>)
    ELSE IF NotSelf(tx) THEN revert_unstake(c, tx.signer, total_value(tx).val, receipt)
    ELSE IF tx.ty = "Retire"
    THEN revert_retire_sender(c, tx.signer, total_value(tx).val, receipt)
    ELSE revert_unpark_sender(c, tx.signer, total_value(tx).val, tx.fee)

----------------------------------------------------------------------------
\* An inherent: ty, value, and data as a sequence of addresses (Address::SIZE
\* bytes each): <<a>> is the encoding of address a, <<>> is empty data.
Inherent(ty, value, data) == [ty |-> ty, value |-> value, data |-> data]

\* check_inherent accepting a Slash only for an address with active stake.
check_inherent_active_only(c, inherent) ==
    IF inherent.value # 0 THEN "InvalidInherent"
    ELSE IF inherent.ty = "Slash" THEN
        IF Len(inherent.data) # 1 THEN "InvalidInherent"
        ELSE IF c.active_stake_by_address[inherent.data[1]] = <<>>
        THEN "InvalidInherent"
        ELSE "Ok"
    ELSE IF inherent.ty = "FinalizeEpoch" THEN
        IF inherent.data # <<>> THEN "InvalidInherent" ELSE "Ok"
    ELSE "InvalidForTarget"

\* check_inherent answering a Reward with InvalidInherent.
check_inherent_reward_invalid_inherent(c, inherent) ==
    IF inherent.value # 0 THEN "InvalidInherent"
    ELSE IF inherent.ty = "Slash" THEN
        IF Len(inherent.data) # 1 THEN "InvalidInherent"
        ELSE IF c.active_stake_by_address[inherent.data[1]] = <<>>
                /\ c.inactive_stake_by_address[inherent.data[1]] = <<>>
        THEN "InvalidInherent"
        ELSE "Ok"
    ELSE IF inherent.ty = "FinalizeEpoch" THEN
        IF inherent.data # <<>> THEN "InvalidInherent" ELSE "Ok"
    ELSE "InvalidInherent"

check_inherent(c, inherent) ==
    IF inherent.value # 0 THEN "InvalidInherent"
    ELSE IF inherent.ty = "Slash" THEN
        IF Len(inherent.data) # 1 THEN "InvalidInherent"
        ELSE IF c.active_stake_by_address[inherent.data[1]] = <<>>
                /\ c.inactive_stake_by_address[inherent.data[1]] = <<>>
        THEN "InvalidInherent"
        ELSE "Ok"
    ELSE IF inherent.ty = "FinalizeEpoch" THEN
        IF inherent.data # <<>> THEN "InvalidInherent" ELSE "Ok"
    ELSE "InvalidForTarget"

\* The loop of FinalizeEpoch over old_epoch, visited in the order the HashSet
\* iterator yields (the sequence order); `?` leaves the loop at the first error.
\* The loop without the retire_recipient call: the stake leaves the active
\* tables and is not added to the inactive ones.
RECURSIVE RetireParkedSenderOnly(_, _, _)
RetireParkedSenderOnly(c, order, block_height) ==
    IF order = <<>> THEN Ret(c, "Ok", <<>>) ELSE
    LET address == Head(order)
        balance == get_active_balance(c, address) IN
    IF balance > 0 THEN
        LET s == retire_sender(c, address, balance) IN
        IF s.res # "Ok" THEN Ret(s.c, s.res, <<>>)
        ELSE RetireParkedSenderOnly(s.c, Tail(order), block_height)
    ELSE RetireParkedSenderOnly(c, Tail(order), block_height)

\* The loop left after the first address visited.
RetireParkedFirstOnly(c, order, block_height) ==
    IF order = <<>> THEN Ret(c, "Ok", <<>>) ELSE
    LET address == Head(order)
        balance == get_active_balance(c, address) IN
    IF balance > 0 THEN
        LET s == retire_sender(c, address, balance) IN
        IF s.res # "Ok" THEN Ret(s.c, s.res, <<>>) ELSE
        LET r == retire_recipient(s.c, address, balance, block_height) IN
        Ret(r.c, r.res, <<>>)
    ELSE Ret(c, "Ok", <<>>)

RECURSIVE RetireParked(_, _, _)
RetireParked(c, order, block_height) ==
    IF order = <<>> THEN Ret(c, "Ok", <<>>) ELSE
    LET address == Head(order)
        balance == get_active_balance(c, address) IN
    IF balance > 0 THEN
        LET s == retire_sender(c, address, balance) IN
        IF s.res # "Ok" THEN Ret(s.c, s.res, <<>>) ELSE
        LET r == retire_recipient(s.c, address, balance, block_height) IN
        IF r.res # "Ok" THEN Ret(r.c, r.res, <<>>)
        ELSE RetireParked(r.c, Tail(order), block_height)
    ELSE RetireParked(c, Tail(order), block_height)

\* Every order in which a HashSet of addresses can be iterated.
IterationOrders(S) ==
    {o \in [1..Cardinality(S) -> S] : \A i, j \in 1..Cardinality(S) : o[i] = o[j] => i = j}

\* The Slash arm taking the slashed staker's active stake out of the
\* contract as well.
slash_seizes_stake(c, staker_address) ==
    LET newly_slashed == staker_address \notin c.current_epoch_parking
        s == retire_sender(c, staker_address, get_active_balance(c, staker_address)) IN
    Ret([(IF s.res = "Ok" THEN s.c ELSE c)
            EXCEPT !.current_epoch_parking = @ \cup {staker_address}],
        "Ok", <<SlashReceipt(newly_slashed)>>)
\* The Slash arm with a receipt that always says newly_slashed.
slash_always_newly(c, staker_address) ==
    Ret([c EXCEPT !.current_epoch_parking = @ \cup {staker_address}],
        "Ok", <<SlashReceipt(TRUE)>>)
\* The Slash arm of commit_inherent: HashSet::insert returns whether the
\* address was added.
slash(c, staker_address) ==
    LET newly_slashed == staker_address \notin c.current_epoch_parking IN
    Ret([c EXCEPT !.current_epoch_parking = @ \cup {staker_address}],
        "Ok", <<SlashReceipt(newly_slashed)>>)

\* The FinalizeEpoch arm retiring every staker, parked or not.
finalize_epoch_retires_all(c, block_height, order) ==
    RetireParked([c EXCEPT !.current_epoch_parking = {},
                           !.previous_epoch_parking = c.current_epoch_parking],
                 SortAddresses(Addresses), block_height)
\* The FinalizeEpoch arm clearing both parking sets instead of moving the
\* current one to the previous one.
finalize_epoch_no_rotation(c, block_height, order) ==
    RetireParked([c EXCEPT !.current_epoch_parking = {},
                           !.previous_epoch_parking = {}],
                 order, block_height)
\* The FinalizeEpoch arm of commit_inherent: swap the lists around, then
\* remove all parked stakers.
finalize_epoch(c, block_height, order) ==
    RetireParked([c EXCEPT !.current_epoch_parking = {},
                           !.previous_epoch_parking = c.current_epoch_parking],
                 order, block_height)

\* order: the iteration order of previous_epoch_parking (read by FinalizeEpoch only)
commit_inherent(c, inherent, block_height, order) ==
    LET chk == check_inherent(c, inherent) IN
    IF chk # "Ok" THEN Ret(c, chk, <<>>)
    ELSE IF inherent.ty = "Slash" THEN slash(c, inherent.data[1])
    ELSE IF inherent.ty = "FinalizeEpoch" THEN finalize_epoch(c, block_height, order)
    ELSE Ret(c, "Panic", <<>>)

\* A revert of FinalizeEpoch that swaps the parking sets back and succeeds.
revert_finalize_epoch_swaps_back(c) ==
    Ret([c EXCEPT !.current_epoch_parking = c.previous_epoch_parking,
                  !.previous_epoch_parking = {}], "Ok", <<>>)
\* "We should not be able to revert finalized epochs!"
revert_finalize_epoch(c) == Ret(c, "InvalidForTarget", <<>>)

\* revert_inherent that removes the address whatever the receipt says.
revert_inherent_always_removes(c, inherent, receipt) ==
    IF inherent.ty = "Slash" THEN
        IF receipt = <<>> THEN Ret(c, "InvalidReceipt", <<>>)
        ELSE IF inherent.data = <<>> THEN Ret(c, "InvalidSerialization", <<>>)
        ELSE IF inherent.data[1] \in c.current_epoch_parking
        THEN Ret([c EXCEPT !.current_epoch_parking = @ \ {inherent.data[1]}],
                 "Ok", <<>>)
        ELSE Ret(c, "InvalidInherent", <<>>)
    ELSE IF inherent.ty = "FinalizeEpoch" THEN revert_finalize_epoch(c)
    ELSE Ret(c, "Panic", <<>>)

revert_inherent(c, inherent, receipt) ==
    IF inherent.ty = "Slash" THEN
        IF receipt = <<>> THEN Ret(c, "InvalidReceipt", <<>>)
        ELSE IF inherent.data = <<>> THEN Ret(c, "InvalidSerialization", <<>>)
        ELSE IF receipt[1].newly_slashed THEN
            IF inherent.data[1] \in c.current_epoch_parking
            THEN Ret([c EXCEPT !.current_epoch_parking = @ \ {inherent.data[1]}],
                     "Ok", <<>>)
            ELSE Ret(c, "InvalidInherent", <<>>)
        ELSE Ret(c, "Ok", <<>>)
    ELSE IF inherent.ty = "FinalizeEpoch" THEN revert_finalize_epoch(c)
    ELSE Ret(c, "Panic", <<>>)

----------------------------------------------------------------------------
(* How the accounts layer drives the contract.  A transaction is committed  *)
(* on its sender's account (outgoing) and then on its recipient's account   *)
(* (incoming); the contract is the recipient of a Stake, the sender of an   *)
(* Unstake and both for Retire and Unpark.  A revert undoes the sides in    *)
(* the opposite order with the receipts the commit returned.                *)
Outcome(c, res, side, out_receipt, receipt) ==
    [c |-> c, res |-> res, side |-> side, out_receipt |-> out_receipt, receipt |-> receipt]

CommitBothSides(c, tx, block_height) ==
    IF tx.ty = "Stake" THEN
        LET i == commit_incoming_transaction(c, tx, block_height) IN
        Outcome(i.c, i.res, "incoming", <<>>, i.receipt)
    ELSE
        LET o == commit_outgoing_transaction(c, tx, block_height) IN
        IF o.res # "Ok" \/ tx.ty = "Unstake"
        THEN Outcome(o.c, o.res, "outgoing", o.receipt, <<>>) ELSE
        LET i == commit_incoming_transaction(o.c, tx, block_height) IN
        Outcome(i.c, i.res, "incoming", o.receipt, i.receipt)

RevertBothSides(c, tx, out_receipt, receipt) ==
    IF tx.ty = "Unstake" THEN
        LET o == revert_outgoing_transaction(c, tx, out_receipt) IN
        Outcome(o.c, o.res, "outgoing", out_receipt, receipt)
    ELSE
        LET i == revert_incoming_transaction(c, tx, receipt) IN
        IF i.res # "Ok" \/ tx.ty = "Stake"
        THEN Outcome(i.c, i.res, "incoming", out_receipt, receipt) ELSE
        LET o == revert_outgoing_transaction(i.c, tx, out_receipt) IN
        Outcome(o.c, o.res, "outgoing", out_receipt, receipt)

----------------------------------------------------------------------------
VARIABLES balance, active_stake_sorted, active_stake_by_address,
          inactive_stake_by_address, current_epoch_parking,
          previous_epoch_parking, last, ops

contract_vars == <<balance, active_stake_sorted, active_stake_by_address,
                   inactive_stake_by_address, current_epoch_parking,
                   previous_epoch_parking>>
vars == <<balance, active_stake_sorted, active_stake_by_address,
          inactive_stake_by_address, current_epoch_parking,
          previous_epoch_parking, last, ops>>

\* The contract as one record, and the assignment of one to the fields.
Contract ==
    [balance |-> balance,
     active_stake_sorted |-> active_stake_sorted,
     active_stake_by_address |-> active_stake_by_address,
     inactive_stake_by_address |-> inactive_stake_by_address,
     current_epoch_parking |-> current_epoch_parking,
     previous_epoch_parking |-> previous_epoch_parking]

Becomes(c) ==
    /\ balance' = c.balance
    /\ active_stake_sorted' = c.active_stake_sorted
    /\ active_stake_by_address' = c.active_stake_by_address
    /\ inactive_stake_by_address' = c.inactive_stake_by_address
    /\ current_epoch_parking' = c.current_epoch_parking
    /\ previous_epoch_parking' = c.previous_epoch_parking

\* The inputs.  A field the contract never reads of a kind of transaction
\* takes one value; so does the block height where the call ignores it.
NoTransaction == Transaction("None", 1, 0, 0, 1, <<>>)
NoInherent == Inherent("None", 0, <<>>)
Transactions ==
    {Transaction("Stake", a, v, 0, d.validator_key, d.reward_address) :
        a \in Addresses, v \in Coins, d \in StakingData}
    \cup {Transaction(ty, a, v, f, 1, <<>>) :
        ty \in {"Retire", "Unpark", "Unstake"}, a \in Addresses, v \in Coins, f \in Coins}
Inherents ==
    {Inherent(ty, v, d) : ty \in {"Slash", "FinalizeEpoch", "Reward"}, v \in {0, 1},
                          d \in {<<>>} \cup {<<a>> : a \in Addresses}}
HeightsOf(ty) ==
    IF ty \in {"Retire", "FinalizeEpoch"} THEN RetireHeights
    ELSE IF ty = "Unstake" THEN Heights ELSE {0}

\* The receipts a revert can be handed for a transaction or an inherent.
ActiveStakeReceipts == {<<>>} \cup {<<d>> : d \in StakingData}
InactiveStakeReceipts == {<<>>} \cup {<<InactiveStakeReceipt(t)>> : t \in RetireHeights}
UnparkReceipts == {<<>>} \cup {<<UnparkReceipt(x, y)>> : x \in BOOLEAN, y \in BOOLEAN}
SlashReceipts == {<<>>} \cup {<<SlashReceipt(n)>> : n \in BOOLEAN}
IncomingReceipts(ty) ==
    IF ty = "Stake" THEN ActiveStakeReceipts
    ELSE IF ty = "Retire" THEN InactiveStakeReceipts ELSE UnparkReceipts
OutgoingReceipts(ty) ==
    IF ty = "Unstake" THEN InactiveStakeReceipts
    ELSE IF ty = "Retire" THEN ActiveStakeReceipts
    ELSE {<<>>, <<UnparkReceipt(TRUE, FALSE)>>}

\* The addresses whose active or inactive entry differs between two contracts.
Changed(c, d) ==
    {a \in Addresses :
        \/ c.active_stake_by_address[a] # d.active_stake_by_address[a]
        \/ c.inactive_stake_by_address[a] # d.inactive_stake_by_address[a]}

(* last: the call made last.  call names it, tx / inherent / block_height   *)
(* are its arguments, given is the receipt handed to a lone revert, res is  *)
(* "Ok", the AccountError or "Panic", side is the side of the transaction   *)
(* that produced res, out_receipt and receipt are the receipts returned by  *)
(* the outgoing side and by the incoming side (or the inherent).  changed   *)
(* observes the call: the addresses whose stake entries it changed.  slots  *)
(* is what select_validators returned.                                      *)
Last(call, tx, inherent, block_height, given, o) ==
    [call |-> call, tx |-> tx, inherent |-> inherent, block_height |-> block_height,
     given |-> given, res |-> o.res, side |-> o.side,
     out_receipt |-> o.out_receipt, receipt |-> o.receipt,
     changed |-> Changed(Contract, o.c), slots |-> <<>>]

Init ==
    /\ balance = DefaultContract.balance
    /\ active_stake_sorted = DefaultContract.active_stake_sorted
    /\ active_stake_by_address = DefaultContract.active_stake_by_address
    /\ inactive_stake_by_address = DefaultContract.inactive_stake_by_address
    /\ current_epoch_parking = DefaultContract.current_epoch_parking
    /\ previous_epoch_parking = DefaultContract.previous_epoch_parking
    /\ last = [call |-> "new", tx |-> NoTransaction, inherent |-> NoInherent,
               block_height |-> 0, given |-> <<>>, res |-> "Ok", side |-> "",
               out_receipt |-> <<>>, receipt |-> <<>>, changed |-> {},
               slots |-> <<>>]
    /\ ops = 0

(* Block processing goes on while every commit has succeeded.  An error or *)
(* a panic ends it: the contract then is what the failed call left behind. *)
(* A commit that is reverted at once, and an entry point called on its own *)
(* (one side of a self transaction, a revert with any receipt), is tried   *)
(* on every state block processing reaches and is not continued.           *)
Running == last.res = "Ok" /\ last.call \in {"new", "commit_transaction", "commit_inherent"}
          /\ ops < MaxOps

CommitTransaction(tx, block_height) ==
    /\ Running
    /\ LET o == CommitBothSides(Contract, tx, block_height) IN
        /\ Becomes(o.c)
        /\ last' = Last("commit_transaction", tx, NoInherent, block_height, <<>>, o)
    /\ ops' = ops + 1

CommitInherent(inherent, block_height, order) ==
    /\ Running
    /\ LET r == commit_inherent(Contract, inherent, block_height, order) IN
        /\ Becomes(r.c)
        /\ last' = Last("commit_inherent", NoTransaction, inherent, block_height, <<>>,
                        Outcome(r.c, r.res, "", <<>>, r.receipt))
    /\ ops' = ops + 1

\* A block is pushed and reverted again: the transaction is committed and,
\* if that succeeded, reverted with the receipts the commit returned.
CommitRevertTransaction(tx, block_height) ==
    /\ Running
    /\ LET o == CommitBothSides(Contract, tx, block_height) IN
        /\ o.res = "Ok"
        /\ LET r == RevertBothSides(o.c, tx, o.out_receipt, o.receipt) IN
            /\ Becomes(r.c)
            /\ last' = Last("commit_revert_transaction", tx, NoInherent,
                            block_height, <<>>, r)
    /\ ops' = ops

CommitRevertInherent(inherent, block_height, order) ==
    /\ Running
    /\ LET o == commit_inherent(Contract, inherent, block_height, order) IN
        /\ o.res = "Ok"
        /\ LET r == revert_inherent(o.c, inherent, o.receipt) IN
            /\ Becomes(r.c)
            /\ last' = Last("commit_revert_inherent", NoTransaction, inherent,
                            block_height, <<>>,
                            Outcome(r.c, r.res, "", <<>>, o.receipt))
    /\ ops' = ops

\* The entry points called on their own, with any receipt.
CommitIncoming(tx, block_height) ==
    /\ Running
    /\ LET r == commit_incoming_transaction(Contract, tx, block_height) IN
        /\ Becomes(r.c)
        /\ last' = Last("commit_incoming", tx, NoInherent, block_height, <<>>,
                        Outcome(r.c, r.res, "incoming", <<>>, r.receipt))
    /\ ops' = ops

CommitOutgoing(tx, block_height) ==
    /\ Running
    /\ LET r == commit_outgoing_transaction(Contract, tx, block_height) IN
        /\ Becomes(r.c)
        /\ last' = Last("commit_outgoing", tx, NoInherent, block_height, <<>>,
                        Outcome(r.c, r.res, "outgoing", r.receipt, <<>>))
    /\ ops' = ops

RevertIncoming(tx, receipt) ==
    /\ Running
    /\ LET r == revert_incoming_transaction(Contract, tx, receipt) IN
        /\ Becomes(r.c)
        /\ last' = Last("revert_incoming", tx, NoInherent, 0, receipt,
                        Outcome(r.c, r.res, "incoming", <<>>, <<>>))
    /\ ops' = ops

RevertOutgoing(tx, receipt) ==
    /\ Running
    /\ LET r == revert_outgoing_transaction(Contract, tx, receipt) IN
        /\ Becomes(r.c)
        /\ last' = Last("revert_outgoing", tx, NoInherent, 0, receipt,
                        Outcome(r.c, r.res, "outgoing", <<>>, <<>>))
    /\ ops' = ops

RevertInherent(inherent, receipt) ==
    /\ Running
    /\ LET r == revert_inherent(Contract, inherent, receipt) IN
        /\ Becomes(r.c)
        /\ last' = Last("revert_inherent", NoTransaction, inherent, 0, receipt,
                        Outcome(r.c, r.res, "", <<>>, <<>>))
    /\ ops' = ops

Next ==
    \/ \E tx \in Transactions : \E h \in HeightsOf(tx.ty) : CommitTransaction(tx, h)
    \/ \E i \in Inherents : \E h \in HeightsOf(i.ty) :
        \E order \in IterationOrders(previous_epoch_parking) : CommitInherent(i, h, order)
    \/ \E tx \in Transactions : \E h \in HeightsOf(tx.ty) : CommitRevertTransaction(tx, h)
    \/ \E i \in Inherents : \E h \in HeightsOf(i.ty) :
        \E order \in IterationOrders(previous_epoch_parking) :
            CommitRevertInherent(i, h, order)

Spec == Init /\ [][Next]_vars

\* The same, with every entry point also called on its own.
NextCalls ==
    \/ Next
    \/ \E tx \in {t \in Transactions : t.ty \in {"Retire", "Unpark"}} :
        \E h \in HeightsOf(tx.ty) : CommitIncoming(tx, h)
    \/ \E tx \in {t \in Transactions : t.ty \in {"Retire", "Unpark"}} :
        \E h \in HeightsOf(tx.ty) : CommitOutgoing(tx, h)
    \/ \E tx \in {t \in Transactions : t.ty # "Unstake"} :
        \E receipt \in IncomingReceipts(tx.ty) : RevertIncoming(tx, receipt)
    \/ \E tx \in {t \in Transactions : t.ty # "Stake"} :
        \E receipt \in OutgoingReceipts(tx.ty) : RevertOutgoing(tx, receipt)
    \/ \E i \in Inherents : \E receipt \in SlashReceipts : RevertInherent(i, receipt)

SpecCalls == Init /\ [][NextCalls]_vars

\* Validator selection on the contract block processing has reached; it
\* takes &self, so the contract stays as it is.
SelectValidators(seed) ==
    /\ Running
    /\ \E lookup \in Lookups(Weights(Contract), seed) :
        LET r == select_validators(Contract, lookup) IN
        last' = [Last("select_validators", NoTransaction, NoInherent, 0, <<>>,
                      Outcome(Contract, r.res, "", <<>>, <<>>))
                 EXCEPT !.slots = r.slots]
    /\ UNCHANGED contract_vars
    /\ ops' = ops

NextSelect ==
    \/ Next
    \/ \E seed \in Seeds : SelectValidators(seed)

SpecSelect == Init /\ [][NextSelect]_vars

\* The chain is rewound by two blocks: an inherent is committed on top of
\* the inherent committed last and reverted with the receipt it returned,
\* then the inherent committed last is reverted with its own receipt.
RewindInherents(inherent, block_height, order) ==
    /\ Running
    /\ last.call = "commit_inherent"
    /\ LET o == commit_inherent(Contract, inherent, block_height, order) IN
        /\ o.res = "Ok"
        /\ LET r == revert_inherent(o.c, inherent, o.receipt) IN
            /\ r.res = "Ok"
            /\ LET q == revert_inherent(r.c, last.inherent, last.receipt) IN
                /\ Becomes(q.c)
                /\ last' = Last("commit_revert_revert_inherent", NoTransaction,
                                inherent, block_height, last.receipt,
                                Outcome(q.c, q.res, "", <<>>, o.receipt))
    /\ ops' = ops

NextRewind ==
    \/ Next
    \/ \E i \in Inherents : \E receipt \in SlashReceipts : RevertInherent(i, receipt)
    \/ \E i \in Inherents : \E h \in HeightsOf(i.ty) :
        \E order \in IterationOrders(previous_epoch_parking) :
            RewindInherents(i, h, order)

SpecRewind == Init /\ [][NextRewind]_vars

\* The contract is written out and read back (a snapshot is restored).
Snapshot(current_order, previous_order) ==
    /\ Running
    /\ LET c == deserialize(serialize(Contract, current_order, previous_order)) IN
        /\ Becomes(c)
        /\ last' = Last("deserialize_serialize", NoTransaction, NoInherent, 0, <<>>,
                        Outcome(c, "Ok", "", <<>>, <<>>))
    /\ ops' = ops

NextSnapshot ==
    \/ Next
    \/ \E current_order \in IterationOrders(current_epoch_parking) :
        \E previous_order \in IterationOrders(previous_epoch_parking) :
            Snapshot(current_order, previous_order)

SpecSnapshot == Init /\ [][NextSnapshot]_vars

\* The contract after address 1 has staked v1 and, if v2 > 0, address 2 has
\* staked v2.
StakedContract(v1, v2) ==
    LET s1 == stake(DefaultContract, 1, v1, 1, <<>>).c IN
    IF v2 = 0 THEN s1 ELSE stake(s1, 2, v2, 2, <<1>>).c

\* Block processing continued from a contract with one or two stakers, so
\* that MaxOps further commits span two epochs with both of them parked.
\* Here ops counts the commits after those stakes.
InitEpochs ==
    \E v1 \in 1..MaxCoin : \E v2 \in 0..(MaxCoin - v1) :
        LET c == StakedContract(v1, v2)
            tx == IF v2 = 0 THEN Transaction("Stake", 1, v1, 0, 1, <<>>)
                            ELSE Transaction("Stake", 2, v2, 0, 2, <<1>>) IN
        /\ balance = c.balance
        /\ active_stake_sorted = c.active_stake_sorted
        /\ active_stake_by_address = c.active_stake_by_address
        /\ inactive_stake_by_address = c.inactive_stake_by_address
        /\ current_epoch_parking = c.current_epoch_parking
        /\ previous_epoch_parking = c.previous_epoch_parking
        /\ last = [call |-> "commit_transaction", tx |-> tx, inherent |-> NoInherent,
                   block_height |-> 0, given |-> <<>>, res |-> "Ok", side |-> "incoming",
                   out_receipt |-> <<>>, receipt |-> <<>>, changed |-> {tx.signer},
                   slots |-> <<>>]
        /\ ops = 0

\* The transactions without a fee that carry the first staking payload.
EpochTransactions == {t \in Transactions : t.fee = 0 /\ t.validator_key = 1}

NextEpochs ==
    \/ \E tx \in EpochTransactions : \E h \in HeightsOf(tx.ty) : CommitTransaction(tx, h)
    \/ \E i \in Inherents : \E h \in HeightsOf(i.ty) :
        \E order \in IterationOrders(previous_epoch_parking) : CommitInherent(i, h, order)

SpecEpochs == InitEpochs /\ [][NextEpochs]_vars

\* The contracts in which address 1 is parked: after the stakes, address 1
\* is slashed, address 2 is or is not slashed as well, and the epoch is or
\* is not finalized.
ParkedContracts ==
    LET staked == {StakedContract(v1, v2) : v1 \in 1..MaxCoin, v2 \in 0..(MaxCoin - 1)}
        slashed1 == {commit_inherent(c, Inherent("Slash", 0, <<1>>), 0, <<>>).c :
                        c \in {s \in staked : s.balance <= MaxCoin}}
        slashed ==
            slashed1
            \cup {commit_inherent(c, Inherent("Slash", 0, <<2>>), 0, <<>>).c :
                     c \in {s \in slashed1 : s.active_stake_by_address[2] # <<>>}} IN
    slashed \cup {commit_inherent(c, Inherent("FinalizeEpoch", 0, <<>>), 0, <<>>).c :
                    c \in slashed}

\* Block processing continued from a contract on which address 1 has just
\* committed an Unpark, and in which address 1 is not slashed again.  Here
\* ops counts the commits after the Unpark.
InitUnparked ==
    \E c \in ParkedContracts : \E fee \in 0..get_active_balance(c, 1) :
        LET tx == Transaction("Unpark", 1, get_active_balance(c, 1) - fee, fee, 1, <<>>)
            o == CommitBothSides(c, tx, 0) IN
        /\ o.res = "Ok"
        /\ balance = o.c.balance
        /\ active_stake_sorted = o.c.active_stake_sorted
        /\ active_stake_by_address = o.c.active_stake_by_address
        /\ inactive_stake_by_address = o.c.inactive_stake_by_address
        /\ current_epoch_parking = o.c.current_epoch_parking
        /\ previous_epoch_parking = o.c.previous_epoch_parking
        /\ last = [call |-> "commit_transaction", tx |-> tx, inherent |-> NoInherent,
                   block_height |-> 0, given |-> <<>>, res |-> "Ok", side |-> "incoming",
                   out_receipt |-> o.out_receipt, receipt |-> o.receipt,
                   changed |-> Changed(c, o.c), slots |-> <<>>]
        /\ ops = 0

NextUnparked ==
    \/ \E tx \in Transactions : \E h \in HeightsOf(tx.ty) : CommitTransaction(tx, h)
    \/ \E i \in {x \in Inherents : ~(x.ty = "Slash" /\ x.data = <<1>>)} :
        \E h \in HeightsOf(i.ty) :
        \E order \in IterationOrders(previous_epoch_parking) : CommitInherent(i, h, order)

SpecUnparked == InitUnparked /\ [][NextUnparked]_vars

----------------------------------------------------------------------------
\* Properties.

RECURSIVE Sum(_, _)
Sum(f, S) == IF S = {} THEN 0
             ELSE LET a == CHOOSE x \in S : TRUE IN f[a] + Sum(f, S \ {a})

\* The state was reached by commits and reverts that all succeeded, with both
\* sides of every self transaction applied.
Settled ==
    /\ last.res = "Ok"
    /\ last.call \in {"new", "commit_transaction", "commit_inherent",
                      "commit_revert_transaction", "commit_revert_inherent"}

ActiveBalances == [a \in Addresses |-> get_active_balance(Contract, a)]
InactiveBalances == [a \in Addresses |-> get_inactive_balance(Contract, a)]
SortedEntries == {active_stake_sorted[i] : i \in 1..Len(active_stake_sorted)}
ByAddressEntries ==
    {active_stake_by_address[a][1] : a \in {x \in Addresses : active_stake_by_address[x] # <<>>}}

\* C1: after any sequence of successful commits, and of reverts of committed
\* operations with the receipts they returned, the contract's balance is the
\* sum of the active balances plus the sum of the inactive ones.
BalanceConservation ==
    Settled => balance = Sum(ActiveBalances, Addresses) + Sum(InactiveBalances, Addresses)

\* An Unpark that paid a fee and left active stake in the contract.
BalanceConservationWitness ==
    /\ Settled
    /\ last.call = "commit_transaction" /\ last.tx.ty = "Unpark" /\ last.tx.fee > 0
    /\ Sum(ActiveBalances, Addresses) > 0

\* C2: after any sequence of successful commits and reverts the two active
\* tables hold the same entries (address, balance, key, reward address), no
\* address is twice in active_stake_sorted, and active_stake_sorted is strictly
\* ordered by balance descending, then address ascending.
StakeTablesConsistent ==
    Settled =>
        /\ SortedEntries = ByAddressEntries
        /\ \A a \in Addresses : active_stake_by_address[a] # <<>> =>
               active_stake_by_address[a][1].staker_address = a
        /\ \A i, j \in 1..Len(active_stake_sorted) :
               active_stake_sorted[i].staker_address = active_stake_sorted[j].staker_address
                   => i = j
        /\ \A i, j \in 1..Len(active_stake_sorted) : i < j =>
               \/ active_stake_sorted[i].balance > active_stake_sorted[j].balance
               \/ /\ active_stake_sorted[i].balance = active_stake_sorted[j].balance
                  /\ active_stake_sorted[i].staker_address
                         < active_stake_sorted[j].staker_address

\* Two stakers, the one with the larger address first, after a commit that was
\* reverted.
StakeTablesConsistentWitness ==
    /\ Settled
    /\ last.call = "commit_revert_transaction"
    /\ Len(active_stake_sorted) = 2
    /\ active_stake_sorted[1].staker_address = 2
    /\ active_stake_sorted[1].balance > active_stake_sorted[2].balance

\* C3: every entry of the active tables and of inactive_stake_by_address has a
\* balance greater than zero.
PositiveBalances ==
    Settled =>
        /\ \A i \in 1..Len(active_stake_sorted) : active_stake_sorted[i].balance > 0
        /\ \A a \in Addresses :
               /\ active_stake_by_address[a] # <<>> => active_stake_by_address[a][1].balance > 0
               /\ inactive_stake_by_address[a] # <<>>
                      => inactive_stake_by_address[a][1].balance > 0

\* C4: a committed operation other than FinalizeEpoch that is reverted with
\* the receipts its commit returned is reverted successfully, and the contract
\* is again what it was before the commit.
CommitRevertRoundTrip ==
    [][(/\ last'.call \in {"commit_revert_transaction", "commit_revert_inherent"}
        /\ last'.inherent.ty # "FinalizeEpoch")
       => (last'.res = "Ok" /\ contract_vars' = contract_vars)]_vars

\* C5: a commit that returns an error leaves the contract as it was.
FailedCommitUnchanged ==
    [][(/\ last'.call \in {"commit_transaction", "commit_inherent", "commit_incoming"}
        /\ last'.res \notin {"Ok", "Panic"})
       => contract_vars' = contract_vars]_vars

\* C6: a revert that returns an error leaves the contract as it was.
FailedRevertUnchanged ==
    [][(/\ last'.call \in {"revert_incoming", "revert_outgoing", "revert_inherent"}
        /\ last'.res \notin {"Ok", "Panic"})
       => contract_vars' = contract_vars]_vars

\* The reverts with a missing or unfitting receipt: no receipt where one is
\* required, a Stake revert for an address without active stake, an Unpark
\* sender revert whose re-credited balance is not total_value, a Slash revert
\* with newly_slashed for an address not in current_epoch_parking, an Unpark
\* recipient revert that re-inserts an address still parked.
BadReceiptRevert ==
    \/ /\ last'.call = "revert_incoming" /\ last'.tx.ty = "Unpark"
       /\ last'.given = <<>>
    \/ /\ last'.call = "revert_inherent" /\ last'.inherent.ty = "Slash"
       /\ last'.given = <<>>
    \/ /\ last'.call = "revert_incoming" /\ last'.tx.ty = "Stake"
       /\ active_stake_by_address[last'.tx.signer] = <<>>
    \/ /\ last'.call = "revert_outgoing" /\ last'.tx.ty = "Unpark"
       /\ active_stake_by_address[last'.tx.signer] # <<>>
       /\ total_value(last'.tx).ok
       /\ active_stake_by_address[last'.tx.signer][1].balance + last'.tx.fee
              # total_value(last'.tx).val
    \/ /\ last'.call = "revert_inherent" /\ last'.inherent.ty = "Slash"
       /\ last'.given = <<SlashReceipt(TRUE)>>
       /\ Len(last'.inherent.data) = 1
       /\ last'.inherent.data[1] \notin current_epoch_parking
    \/ /\ last'.call = "revert_incoming" /\ last'.tx.ty = "Unpark"
       /\ last'.given # <<>>
       /\ \/ last'.given[1].current_epoch /\ last'.tx.signer \in current_epoch_parking
          \/ last'.given[1].previous_epoch /\ last'.tx.signer \in previous_epoch_parking

\* C7: a revert that is given no receipt where one is required, or a receipt
\* that does not fit the contract, fails with InvalidReceipt.
BadReceiptIsInvalidReceipt ==
    [][BadReceiptRevert => last'.res = "InvalidReceipt"]_vars

\* C8: no call ends in a panic.
NoPanic == last.res # "Panic"

\* C9: an Unstake by a staker whose inactive entry has retire_time t and covers
\* total_value is committed at block_height h if h >= macro_block_after(t) +
\* UNSTAKING_DELAY; below that it fails with InvalidForSender and the contract,
\* the inactive entry with it, is unchanged.
UnstakeTiming ==
    [][(/\ last'.call = "commit_transaction" /\ last'.tx.ty = "Unstake"
        /\ inactive_stake_by_address[last'.tx.signer] # <<>>
        /\ total_value(last'.tx).ok
        /\ inactive_stake_by_address[last'.tx.signer][1].balance
               >= total_value(last'.tx).val)
       => LET t == inactive_stake_by_address[last'.tx.signer][1].retire_time IN
          IF last'.block_height >= macro_block_after(t) + UNSTAKING_DELAY
          THEN last'.res = "Ok"
          ELSE last'.res = "InvalidForSender" /\ contract_vars' = contract_vars]_vars

\* An Unstake of a whole inactive entry committed at the first height allowed.
UnstakeTimingWitness ==
    /\ last.call = "commit_transaction" /\ last.tx.ty = "Unstake" /\ last.res = "Ok"
    /\ last.out_receipt # <<>>
    /\ last.block_height
           = macro_block_after(last.out_receipt[1].retire_time) + UNSTAKING_DELAY
    /\ last.tx.value + last.tx.fee > 0

\* C10: a FinalizeEpoch committed at block_height h empties current_epoch_parking,
\* makes previous_epoch_parking what current_epoch_parking was, and moves the
\* active stake b > 0 of every address that was in previous_epoch_parking to its
\* inactive entry: no active entry is left, the inactive balance grows by b and
\* retire_time is h.
FinalizeEpochEffect ==
    [][(/\ last'.call = "commit_inherent" /\ last'.inherent.ty = "FinalizeEpoch"
        /\ last'.res = "Ok")
       => /\ current_epoch_parking' = {}
          /\ previous_epoch_parking' = current_epoch_parking
          /\ \A a \in previous_epoch_parking :
                 get_active_balance(Contract, a) > 0 =>
                     /\ active_stake_by_address'[a] = <<>>
                     /\ \A i \in 1..Len(active_stake_sorted') :
                            active_stake_sorted'[i].staker_address # a
                     /\ inactive_stake_by_address'[a] =
                            <<InactiveStake(get_inactive_balance(Contract, a)
                                                + get_active_balance(Contract, a),
                                            last'.block_height)>>]_vars

\* A FinalizeEpoch at height 1 that moved the active stake of a staker dropped
\* from previous_epoch_parking to an inactive entry retired at height 1.
FinalizeEpochEffectWitness ==
    /\ last.call = "commit_inherent" /\ last.inherent.ty = "FinalizeEpoch"
    /\ last.res = "Ok" /\ last.block_height = 1
    /\ current_epoch_parking = {}
    /\ \E a \in last.changed :
           /\ a \notin previous_epoch_parking
           /\ active_stake_by_address[a] = <<>>
           /\ inactive_stake_by_address[a] # <<>>
           /\ inactive_stake_by_address[a][1].balance > 0
           /\ inactive_stake_by_address[a][1].retire_time = 1

\* C11: revert_inherent of a FinalizeEpoch inherent returns an error, whatever
\* the contract and whatever receipt it is handed (one or none), and leaves the
\* contract as it was; a FinalizeEpoch that was just committed cannot be
\* reverted either.
FinalizeEpochIrreversible ==
    [][/\ (last'.call = "revert_inherent" /\ last'.inherent.ty = "FinalizeEpoch")
           => (last'.res = "InvalidForTarget" /\ contract_vars' = contract_vars)
       /\ (last'.call = "commit_revert_inherent" /\ last'.inherent.ty = "FinalizeEpoch")
           => last'.res = "InvalidForTarget"]_vars

\* A revert of FinalizeEpoch, handed a receipt, on a contract that a
\* FinalizeEpoch has rotated (an address is parked in the previous epoch).
FinalizeEpochIrreversibleWitness ==
    /\ last.call = "revert_inherent" /\ last.inherent.ty = "FinalizeEpoch"
    /\ last.inherent.value = 0 /\ last.inherent.data = <<>>
    /\ last.given # <<>>
    /\ last.res = "InvalidForTarget"
    /\ previous_epoch_parking # {}

\* The addresses of S in ascending order.
AscendingOrder(S) ==
    CHOOSE o \in IterationOrders(S) : \A i, j \in 1..Cardinality(S) : i < j => o[i] < o[j]

\* C12: whatever the order in which FinalizeEpoch visits the addresses dropped
\* from previous_epoch_parking, the commit returns the same result and leaves
\* the same contract as when it visits them in ascending address order.
FinalizeEpochOrderIndependent ==
    [][(last'.call = "commit_inherent" /\ last'.inherent.ty = "FinalizeEpoch")
       => LET r == commit_inherent(Contract, last'.inherent, last'.block_height,
                                   AscendingOrder(previous_epoch_parking)) IN
          /\ last'.res = r.res
          /\ Contract' = r.c]_vars

\* A FinalizeEpoch that retired the active stake of both addresses.
FinalizeEpochOrderIndependentWitness ==
    /\ last.call = "commit_inherent" /\ last.inherent.ty = "FinalizeEpoch"
    /\ last.res = "Ok"
    /\ last.changed = Addresses
    /\ \A a \in Addresses : active_stake_by_address[a] = <<>>
                              /\ inactive_stake_by_address[a] # <<>>

\* A successful commit that is neither a Slash of a, nor an Unpark by a, nor a
\* FinalizeEpoch: it leaves a where it is in the parking sets.
ParkingKept(a) ==
    (/\ last'.call \in {"commit_transaction", "commit_inherent"} /\ last'.res = "Ok"
     /\ last'.inherent.ty # "FinalizeEpoch"
     /\ ~(last'.inherent.ty = "Slash" /\ last'.inherent.data = <<a>>)
     /\ ~(last'.tx.ty = "Unpark" /\ last'.tx.signer = a))
    => /\ (a \in current_epoch_parking') = (a \in current_epoch_parking)
       /\ (a \in previous_epoch_parking') = (a \in previous_epoch_parking)

FinalizeEpochCommitted ==
    last'.call = "commit_inherent" /\ last'.inherent.ty = "FinalizeEpoch" /\ last'.res = "Ok"

\* The second FinalizeEpoch after the slash: a, parked in the previous epoch
\* only, leaves both sets and all its active stake becomes inactive.
DroppedAndRetired(a) ==
    (FinalizeEpochCommitted /\ a \in previous_epoch_parking \ current_epoch_parking)
    => /\ a \notin current_epoch_parking' /\ a \notin previous_epoch_parking'
       /\ get_active_balance(Contract', a) = 0
       /\ get_inactive_balance(Contract', a)
              = get_inactive_balance(Contract, a) + get_active_balance(Contract, a)

\* C13 as stated: an address that is slashed and then neither unparked nor
\* slashed again stays in current_epoch_parking until the next FinalizeEpoch,
\* which moves it to previous_epoch_parking and leaves its active stake
\* untouched; it stays there until the FinalizeEpoch after that, which drops
\* it from both sets and moves all its active stake to its inactive entry.
TwoEpochLifecycle ==
    [][\A a \in Addresses :
          /\ ParkingKept(a)
          /\ (FinalizeEpochCommitted /\ a \in current_epoch_parking)
             => /\ a \in previous_epoch_parking' /\ a \notin current_epoch_parking'
                /\ active_stake_by_address'[a] = active_stake_by_address[a]
          /\ DroppedAndRetired(a)]_vars

\* C13 amended: the same, but the first FinalizeEpoch leaves the active stake
\* untouched only if the address was not also parked in the previous epoch.
TwoEpochLifecycleUnlessParkedBefore ==
    [][\A a \in Addresses :
          /\ ParkingKept(a)
          /\ (FinalizeEpochCommitted /\ a \in current_epoch_parking)
             => /\ a \in previous_epoch_parking' /\ a \notin current_epoch_parking'
                /\ a \notin previous_epoch_parking
                       => active_stake_by_address'[a] = active_stake_by_address[a]
          /\ DroppedAndRetired(a)]_vars

\* The fourth commit after the first stake is a FinalizeEpoch at height 0 that
\* drops address 1 from the parking sets and retires MaxCoin of active stake.
TwoEpochLifecycleWitness ==
    /\ last.call = "commit_inherent" /\ last.inherent.ty = "FinalizeEpoch"
    /\ last.res = "Ok" /\ last.block_height = 0 /\ ops = 4
    /\ 1 \in last.changed
    /\ 1 \notin current_epoch_parking /\ 1 \notin previous_epoch_parking
    /\ active_stake_by_address[1] = <<>>
    /\ inactive_stake_by_address[1] = <<InactiveStake(MaxCoin, 0)>>

\* C14: a successful Slash of A adds A to current_epoch_parking, and its receipt
\* says newly_slashed exactly when A was not in current_epoch_parking before;
\* so a second Slash of A, with A still in the set, says newly_slashed = false.
SlashEffect ==
    [][(last'.call = "commit_inherent" /\ last'.inherent.ty = "Slash" /\ last'.res = "Ok")
       => LET a == last'.inherent.data[1] IN
          /\ current_epoch_parking' = current_epoch_parking \cup {a}
          /\ last'.receipt = <<SlashReceipt(a \notin current_epoch_parking)>>]_vars

\* A second Slash of an address in the same epoch: it is in the set and the
\* receipt says it was not newly slashed.
SlashEffectWitness ==
    /\ last.call = "commit_inherent" /\ last.inherent.ty = "Slash" /\ last.res = "Ok"
    /\ last.receipt = <<SlashReceipt(FALSE)>>
    /\ last.inherent.data[1] \in current_epoch_parking
    /\ previous_epoch_parking = {}

\* C15: a Slash with a value other than zero, or for an address that has
\* neither an active nor an inactive entry, fails with InvalidInherent and
\* leaves the contract, current_epoch_parking with it, as it was; a Slash with
\* value zero for an address with an entry of either kind, an inactive one
\* alone included, succeeds.
SlashPrecondition ==
    [][(/\ last'.call = "commit_inherent" /\ last'.inherent.ty = "Slash"
        /\ Len(last'.inherent.data) = 1)
       => LET a == last'.inherent.data[1] IN
          IF \/ last'.inherent.value # 0
             \/ /\ active_stake_by_address[a] = <<>>
                /\ inactive_stake_by_address[a] = <<>>
          THEN last'.res = "InvalidInherent" /\ contract_vars' = contract_vars
          ELSE last'.res = "Ok" /\ a \in current_epoch_parking']_vars

\* A Slash committed for an address that has inactive stake only.
SlashPreconditionWitness ==
    /\ last.call = "commit_inherent" /\ last.inherent.ty = "Slash" /\ last.res = "Ok"
    /\ active_stake_by_address[last.inherent.data[1]] = <<>>
    /\ get_inactive_balance(Contract, last.inherent.data[1]) > 0
    /\ last.inherent.data[1] \in current_epoch_parking

\* C16: when both sides of an Unpark by A are committed, A's active balance
\* was value + fee and A was in a parking set; afterwards A is in neither
\* set, A's active entry has the same key and reward address and fee less
\* balance in both active tables, the contract's balance is fee less, and the
\* receipt's booleans say in which sets A was.
UnparkNetEffect ==
    [][(last'.call = "commit_transaction" /\ last'.tx.ty = "Unpark" /\ last'.res = "Ok")
       => LET a == last'.tx.signer
              fee == last'.tx.fee
              old == active_stake_by_address[a] IN
          /\ old # <<>>
          /\ old[1].balance = last'.tx.value + fee
          /\ a \in current_epoch_parking \cup previous_epoch_parking
          /\ current_epoch_parking' = current_epoch_parking \ {a}
          /\ previous_epoch_parking' = previous_epoch_parking \ {a}
          /\ active_stake_by_address'[a]
                 = <<ActiveStake(a, old[1].balance - fee, old[1].validator_key,
                                 old[1].reward_address)>>
          /\ \E i \in 1..Len(active_stake_sorted') :
                 active_stake_sorted'[i] = active_stake_by_address'[a][1]
          /\ balance' = balance - fee
          /\ last'.receipt = <<UnparkReceipt(a \in current_epoch_parking,
                                             a \in previous_epoch_parking)>>]_vars

\* An Unpark that paid a fee, by a staker parked in the previous epoch who
\* keeps active stake.
UnparkNetEffectWitness ==
    /\ last.call = "commit_transaction" /\ last.tx.ty = "Unpark" /\ last.res = "Ok"
    /\ last.tx.fee > 0 /\ last.tx.value > 0
    /\ last.receipt # <<>> /\ last.receipt[1].previous_epoch
    /\ get_active_balance(Contract, last.tx.signer) = last.tx.value
    /\ last.tx.signer \notin current_epoch_parking \cup previous_epoch_parking

\* What scenario 6 promises of an Unpark by a with fee f: it is committed, a
\* leaves current_epoch_parking, a's active balance is f less and the receipt
\* is {current_epoch = true, previous_epoch = false}.
UnparkedFromCurrent(a) ==
    /\ last'.res = "Ok"
    /\ a \notin current_epoch_parking'
    /\ get_active_balance(Contract', a) = get_active_balance(Contract, a) - last'.tx.fee
    /\ active_stake_by_address'[a] # <<>>
    /\ last'.receipt = <<UnparkReceipt(TRUE, FALSE)>>

\* C17 as stated: once A, a staker with active stake, is slashed, an Unpark
\* by A with value = active_balance(A) and fee f is committed, removes A from
\* current_epoch_parking, takes f from A's active balance and returns the
\* receipt {current_epoch = true, previous_epoch = false}.
UnparkAfterSlash ==
    [][\A a \in Addresses :
          (/\ a \in current_epoch_parking /\ get_active_balance(Contract, a) > 0
           /\ last'.call = "commit_transaction" /\ last'.tx.ty = "Unpark"
           /\ last'.tx.signer = a
           /\ last'.tx.value = get_active_balance(Contract, a))
          => UnparkedFromCurrent(a)]_vars

\* C17 amended: the same for an Unpark whose value + fee is the active balance
\* of A, with A not in previous_epoch_parking.
UnparkTotalAfterSlash ==
    [][\A a \in Addresses :
          (/\ a \in current_epoch_parking /\ get_active_balance(Contract, a) > 0
           /\ a \notin previous_epoch_parking
           /\ last'.call = "commit_transaction" /\ last'.tx.ty = "Unpark"
           /\ last'.tx.signer = a
           /\ last'.tx.value + last'.tx.fee = get_active_balance(Contract, a))
          => UnparkedFromCurrent(a)]_vars

\* An Unpark with a fee right after the Slash of its signer, who was parked in
\* the current epoch only.
UnparkTotalAfterSlashWitness ==
    /\ last.call = "commit_transaction" /\ last.tx.ty = "Unpark" /\ last.res = "Ok"
    /\ last.tx.fee > 0
    /\ last.receipt = <<UnparkReceipt(TRUE, FALSE)>>
    /\ get_active_balance(Contract, last.tx.signer) = last.tx.value
    /\ current_epoch_parking = {} /\ previous_epoch_parking = {}
    /\ ops = 3

\* C18: a successful Stake of value v by A with payload (key, reward) leaves A
\* one active entry, in both tables, with the previous active balance (0 if
\* none) plus v and the payload's key and reward address; the receipt carries
\* the previous key and reward address if A had an entry and is absent if
\* not; the contract's balance is v more; the other active entries, the
\* inactive stakes and the parking sets are as before.
StakeSemantics ==
    [][(last'.call = "commit_transaction" /\ last'.tx.ty = "Stake" /\ last'.res = "Ok")
       => LET a == last'.tx.signer
              v == last'.tx.value
              new == ActiveStake(a, get_active_balance(Contract, a) + v,
                                 last'.tx.validator_key, last'.tx.reward_address) IN
          /\ active_stake_by_address' = [active_stake_by_address EXCEPT ![a] = <<new>>]
          /\ {active_stake_sorted'[i] : i \in 1..Len(active_stake_sorted')}
                 = {active_stake_by_address'[x][1] :
                       x \in {y \in Addresses : active_stake_by_address'[y] # <<>>}}
          /\ last'.receipt = IF active_stake_by_address[a] = <<>> THEN <<>>
                             ELSE <<ActiveStakeReceipt(active_stake_by_address[a][1])>>
          /\ balance' = balance + v
          /\ inactive_stake_by_address' = inactive_stake_by_address
          /\ current_epoch_parking' = current_epoch_parking
          /\ previous_epoch_parking' = previous_epoch_parking]_vars

\* A Stake on top of an entry that had another validator key and reward
\* address: the receipt carries the old ones, the entry the new ones.
StakeSemanticsWitness ==
    /\ last.call = "commit_transaction" /\ last.tx.ty = "Stake" /\ last.res = "Ok"
    /\ last.tx.value > 0
    /\ last.receipt # <<>>
    /\ last.receipt[1].validator_key # last.tx.validator_key
    /\ last.receipt[1].reward_address # last.tx.reward_address
    /\ get_active_balance(Contract, last.tx.signer) > last.tx.value
    /\ active_stake_by_address[last.tx.signer][1].validator_key = last.tx.validator_key

\* C19: a Stake whose value would take the contract's balance or the staker's
\* active balance beyond the maximum coin value fails with an error and
\* leaves the contract, the staker's entry with it, as it was.
StakeOverflow ==
    [][(/\ last'.call = "commit_transaction" /\ last'.tx.ty = "Stake"
        /\ \/ balance + last'.tx.value > MaxCoin
           \/ get_active_balance(Contract, last'.tx.signer) + last'.tx.value > MaxCoin)
       => (last'.res \notin {"Ok", "Panic"} /\ contract_vars' = contract_vars)]_vars

\* A failed Stake by a staker who has an active entry, the contract holding
\* less than the maximum.
StakeOverflowWitness ==
    /\ last.call = "commit_transaction" /\ last.tx.ty = "Stake"
    /\ last.res = "InvalidCoinValue"
    /\ get_active_balance(Contract, last.tx.signer) > 0
    /\ balance < MaxCoin
    /\ balance + last.tx.value > MaxCoin

\* C20: a successful outgoing side of a Retire of total_value by A, whose
\* active balance is b, takes total_value from the contract's balance and from
\* A's active balance; if b = total_value the entry leaves both active tables
\* and the receipt carries its validator key and reward address; if
\* b > total_value the entry keeps them and there is no receipt.
RetireOutgoing ==
    [][(last'.call = "commit_outgoing" /\ last'.tx.ty = "Retire" /\ last'.res = "Ok")
       => LET a == last'.tx.signer
              total == last'.tx.value + last'.tx.fee
              old == active_stake_by_address[a]
              b == get_active_balance(Contract, a) IN
          /\ old # <<>> /\ b >= total
          /\ balance' = balance - total
          /\ get_active_balance(Contract', a) = b - total
          /\ IF b = total
             THEN /\ active_stake_by_address'[a] = <<>>
                  /\ \A i \in 1..Len(active_stake_sorted') :
                         active_stake_sorted'[i].staker_address # a
                  /\ last'.out_receipt = <<ActiveStakeReceipt(old[1])>>
             ELSE /\ active_stake_by_address'[a]
                         = <<ActiveStake(a, b - total, old[1].validator_key,
                                         old[1].reward_address)>>
                  /\ \E i \in 1..Len(active_stake_sorted') :
                         active_stake_sorted'[i] = active_stake_by_address'[a][1]
                  /\ last'.out_receipt = <<>>]_vars

\* The outgoing side of a Retire of all of a staker's active stake, with a
\* fee, while another staker stays active.
RetireOutgoingWitness ==
    /\ last.call = "commit_outgoing" /\ last.tx.ty = "Retire" /\ last.res = "Ok"
    /\ last.tx.fee > 0
    /\ last.out_receipt # <<>>
    /\ active_stake_by_address[last.tx.signer] = <<>>
    /\ Len(active_stake_sorted) = 1

\* C21: a successful incoming side of a Retire of value v at block_height h
\* by A leaves A an inactive entry with balance = previous inactive balance
\* (0 if none) + v and retire_time = h, whatever the previous retire_time;
\* the receipt carries the previous retire_time and is returned exactly when
\* an inactive entry existed.
RetireIncoming ==
    [][(last'.call = "commit_incoming" /\ last'.tx.ty = "Retire" /\ last'.res = "Ok")
       => LET a == last'.tx.signer
              old == inactive_stake_by_address[a] IN
          /\ inactive_stake_by_address'[a]
                 = <<InactiveStake(get_inactive_balance(Contract, a) + last'.tx.value,
                                   last'.block_height)>>
          /\ last'.receipt = IF old = <<>> THEN <<>>
                             ELSE <<InactiveStakeReceipt(old[1].retire_time)>>]_vars

\* The incoming side of a Retire of a positive value at height 0 by a
\* staker whose inactive entry had retire_time 1.
RetireIncomingWitness ==
    /\ last.call = "commit_incoming" /\ last.tx.ty = "Retire" /\ last.res = "Ok"
    /\ last.tx.value > 0
    /\ last.block_height = 0
    /\ last.receipt = <<InactiveStakeReceipt(1)>>
    /\ inactive_stake_by_address[last.tx.signer] = <<InactiveStake(MaxCoin, 0)>>

\* C22: a successful Unstake of total_value by A with inactive balance b
\* takes total_value from the contract's balance; if b = total_value the
\* inactive entry is removed and the receipt carries its retire_time; if
\* b > total_value the entry stays with balance b - total_value and the same
\* retire_time and there is no receipt; the active stakes and the parking
\* sets are untouched.
UnstakeSemantics ==
    [][(last'.call = "commit_transaction" /\ last'.tx.ty = "Unstake" /\ last'.res = "Ok")
       => LET a == last'.tx.signer
              total == last'.tx.value + last'.tx.fee
              old == inactive_stake_by_address[a]
              b == get_inactive_balance(Contract, a) IN
          /\ old # <<>> /\ b >= total
          /\ balance' = balance - total
          /\ IF b = total
             THEN /\ inactive_stake_by_address'[a] = <<>>
                  /\ last'.out_receipt = <<InactiveStakeReceipt(old[1].retire_time)>>
             ELSE /\ inactive_stake_by_address'[a]
                         = <<InactiveStake(b - total, old[1].retire_time)>>
                  /\ last'.out_receipt = <<>>
          /\ \A x \in Addresses \ {a} :
                 inactive_stake_by_address'[x] = inactive_stake_by_address[x]
          /\ UNCHANGED <<active_stake_sorted, active_stake_by_address,
                         current_epoch_parking, previous_epoch_parking>>]_vars

\* An Unstake of part of an inactive entry with a fee, by a parked staker:
\* the rest of the entry is still there.
UnstakeSemanticsWitness ==
    /\ last.call = "commit_transaction" /\ last.tx.ty = "Unstake" /\ last.res = "Ok"
    /\ last.tx.fee > 0
    /\ last.out_receipt = <<>>
    /\ inactive_stake_by_address[last.tx.signer] # <<>>
    /\ last.tx.signer \in current_epoch_parking

\* C23 as stated: every Reward inherent, whatever its value and data, is
\* answered with InvalidForTarget by check_inherent and commit_inherent, and
\* the contract is unchanged.
RewardRejected ==
    [][(last'.call = "commit_inherent" /\ last'.inherent.ty = "Reward")
       => /\ check_inherent(Contract, last'.inherent) = "InvalidForTarget"
          /\ last'.res = "InvalidForTarget"
          /\ UNCHANGED contract_vars]_vars

\* C23, amended: a Reward inherent with value zero, whatever its data, is
\* answered with InvalidForTarget by check_inherent and commit_inherent; one
\* with a non-zero value is answered with InvalidInherent; the contract is
\* unchanged either way.
RewardRejectedByValue ==
    [][(last'.call = "commit_inherent" /\ last'.inherent.ty = "Reward")
       => LET answer == IF last'.inherent.value = 0 THEN "InvalidForTarget"
                                                    ELSE "InvalidInherent" IN
          /\ check_inherent(Contract, last'.inherent) = answer
          /\ last'.res = answer
          /\ UNCHANGED contract_vars]_vars

\* A Reward inherent with value zero and an address as data, rejected by a
\* contract that holds stake.
RewardRejectedByValueWitness ==
    /\ last.call = "commit_inherent" /\ last.inherent.ty = "Reward"
    /\ last.inherent.value = 0 /\ last.inherent.data # <<>>
    /\ last.res = "InvalidForTarget"
    /\ balance > 0

\* C24: in a state with at least one active stake, select_validators returns,
\* for every seed, exactly SLOTS assignments, each the validator key, staker
\* address and reward address of an entry of active_stake_sorted, and does
\* not modify the contract.
SelectValidatorsOutput ==
    [][(last'.call = "select_validators" /\ active_stake_sorted # <<>>)
       => /\ last'.res = "Ok"
          /\ Len(last'.slots) = SLOTS
          /\ \A k \in 1..SLOTS : \E i \in 1..Len(active_stake_sorted) :
                 last'.slots[k] = Slot(active_stake_sorted[i].validator_key,
                                       active_stake_sorted[i].staker_address,
                                       active_stake_sorted[i].reward_address)
          /\ UNCHANGED contract_vars]_vars

\* C25: select_validators never builds or samples the alias table over an
\* empty weight sequence or one whose weights are all zero.
SelectValidatorsSamplingDefined ==
    last.call = "select_validators" => AliasDefined(Weights(Contract))

\* The number of places of the two sections where the inactive entry of
\* address a is encoded.
TimesEncoded(a) ==
    Cardinality({i \in 1..Len(ActiveSection(Contract)) :
                    /\ ActiveSection(Contract)[i].active_stake.staker_address = a
                    /\ ActiveSection(Contract)[i].inactive_stake
                           = inactive_stake_by_address[a]})
    + Cardinality({j \in 1..Len(OrphanSection(Contract)) :
                    /\ OrphanSection(Contract)[j].staker_address = a
                    /\ <<OrphanSection(Contract)[j].inactive_stake>>
                           = inactive_stake_by_address[a]})

\* C26: deserialize(serialize(s)) equals s in every field (balance, both
\* active tables, the inactive map, both parking sets), whatever the order in
\* which the parking sets are written; every inactive entry is encoded
\* exactly once, next to its staker's active entry or in the orphan list,
\* which is sorted by address.
SerializationRoundTrip ==
    [][last'.call = "deserialize_serialize"
       => /\ UNCHANGED contract_vars
          /\ \A a \in Addresses :
                 inactive_stake_by_address[a] # <<>> => TimesEncoded(a) = 1
          /\ \A j, k \in 1..Len(OrphanSection(Contract)) :
                 j < k => OrphanSection(Contract)[j].staker_address
                            < OrphanSection(Contract)[k].staker_address]_vars

\* A contract read back in which a parked staker has both an active and an
\* inactive entry with positive balances.
SerializationRoundTripWitness ==
    /\ last.call = "deserialize_serialize"
    /\ \E a \in current_epoch_parking :
        /\ get_active_balance(Contract, a) > 0
        /\ get_inactive_balance(Contract, a) > 0

\* C27: a revert of the incoming side of a Retire without a receipt succeeds
\* only if the staker's inactive entry has exactly the reverted value as its
\* balance, and then removes the entry; with a smaller or a larger balance
\* it fails.
RetireRecipientRevertExact ==
    [][(/\ last'.call = "revert_incoming" /\ last'.tx.ty = "Retire"
        /\ last'.given = <<>> /\ last'.res = "Ok")
       => LET a == last'.tx.signer IN
          /\ inactive_stake_by_address[a] # <<>>
          /\ get_inactive_balance(Contract, a) = last'.tx.value
          /\ inactive_stake_by_address'[a] = <<>>]_vars

\* C28: a successful revert of a Slash of A with a receipt saying
\* newly_slashed = false leaves current_epoch_parking as it is, one with
\* newly_slashed = true removes A from it; so when Slash(A) was committed
\* twice in a row, A is still parked after the revert of the second, and
\* after the revert of the first as well A is parked only if it was before
\* the first; previous_epoch_parking is not modified by any of them.
SlashRevertRespectsPriorSlashes ==
    [][/\ (last'.call = "revert_inherent" /\ last'.inherent.ty = "Slash"
           /\ last'.res = "Ok")
          => /\ previous_epoch_parking' = previous_epoch_parking
             /\ IF last'.given[1].newly_slashed
                THEN /\ last'.inherent.data[1] \in current_epoch_parking
                     /\ current_epoch_parking'
                            = current_epoch_parking \ {last'.inherent.data[1]}
                ELSE current_epoch_parking' = current_epoch_parking
       /\ (last.call = "commit_inherent" /\ last.inherent.ty = "Slash"
           /\ last'.inherent = last.inherent
           /\ last'.call = "commit_revert_inherent")
          => /\ last'.res = "Ok"
             /\ last'.receipt = <<SlashReceipt(FALSE)>>
             /\ last.inherent.data[1] \in current_epoch_parking'
             /\ previous_epoch_parking' = previous_epoch_parking
       /\ (last.call = "commit_inherent" /\ last.inherent.ty = "Slash"
           /\ last'.inherent = last.inherent
           /\ last'.call = "commit_revert_revert_inherent")
          => /\ last'.res = "Ok"
             /\ previous_epoch_parking' = previous_epoch_parking
             /\ IF last.receipt = <<SlashReceipt(TRUE)>>
                THEN current_epoch_parking'
                        = current_epoch_parking \ {last.inherent.data[1]}
                ELSE current_epoch_parking' = current_epoch_parking]_vars

\* Slash(A) committed twice on a staker with active stake who was not
\* parked, both reverted: the second with newly_slashed = false, the first
\* with newly_slashed = true; A is not parked any more.
SlashRevertRespectsPriorSlashesWitness ==
    /\ last.call = "commit_revert_revert_inherent" /\ last.res = "Ok"
    /\ last.inherent.ty = "Slash"
    /\ last.receipt = <<SlashReceipt(FALSE)>>
    /\ last.given = <<SlashReceipt(TRUE)>>
    /\ last.inherent.data[1] \notin current_epoch_parking
    /\ get_active_balance(Contract, last.inherent.data[1]) > 0

\* C29: when the outgoing side of a Retire or Unpark self transaction has
\* been committed successfully, the incoming side of the same transaction,
\* committed right after it at the same block height, succeeds as well.
SelfTransactionAtomic ==
    [][(/\ last'.call = "commit_transaction"
        /\ last'.tx.ty \in {"Retire", "Unpark"}
        /\ last'.side = "incoming")
       => last'.res = "Ok"]_vars

\* An Unpark with a fee by a staker parked in the previous epoch only, and
\* both of its sides committed.
SelfTransactionAtomicWitness ==
    /\ last.call = "commit_transaction" /\ last.tx.ty = "Unpark"
    /\ last.side = "incoming" /\ last.res = "Ok"
    /\ last.tx.fee > 0
    /\ last.receipt = <<UnparkReceipt(FALSE, TRUE)>>

\* C30: committing or reverting a Slash inherent, whatever the outcome,
\* leaves the contract's balance, both active stake tables, the inactive
\* stake map and previous_epoch_parking unchanged; current_epoch_parking
\* changes at most in the membership of the slashed address.
SlashMovesNoFunds ==
    [][(/\ last'.call \in {"commit_inherent", "revert_inherent",
                           "commit_revert_inherent"}
        /\ last'.inherent.ty = "Slash")
       => /\ UNCHANGED <<balance, active_stake_sorted, active_stake_by_address,
                         inactive_stake_by_address, previous_epoch_parking>>
          /\ \A a \in Addresses :
                 (a \in current_epoch_parking') # (a \in current_epoch_parking)
                 => last'.inherent.data = <<a>>]_vars

\* A committed Slash that newly parked a staker with active stake while
\* another staker is parked from the previous epoch.
SlashMovesNoFundsWitness ==
    /\ last.call = "commit_inherent" /\ last.inherent.ty = "Slash"
    /\ last.res = "Ok" /\ last.receipt = <<SlashReceipt(TRUE)>>
    /\ get_active_balance(Contract, last.inherent.data[1]) > 0
    /\ previous_epoch_parking # {}

\* C31: a commit or a revert of a Stake, a Retire or an Unstake, of both
\* sides or of one, whatever its outcome, modifies neither
\* current_epoch_parking nor previous_epoch_parking; so a parked staker who
\* retires or unstakes the whole balance stays parked.
StakingLeavesParking ==
    [][(/\ last'.call \in {"commit_transaction", "commit_revert_transaction",
                           "commit_incoming", "commit_outgoing",
                           "revert_incoming", "revert_outgoing"}
        /\ last'.tx.ty \in {"Stake", "Retire", "Unstake"})
       => UNCHANGED <<current_epoch_parking, previous_epoch_parking>>]_vars

\* A staker parked in the current epoch has retired the whole active stake
\* with a Retire transaction and is still parked.
StakingLeavesParkingWitness ==
    /\ last.call = "commit_transaction" /\ last.tx.ty = "Retire" /\ last.res = "Ok"
    /\ last.out_receipt # <<>>
    /\ last.tx.value > 0
    /\ last.tx.signer \in current_epoch_parking
    /\ active_stake_by_address[last.tx.signer] = <<>>

\* C32: a commit of FinalizeEpoch leaves the contract's balance unchanged
\* and leaves the active entry and the inactive entry of every address that
\* was not in previous_epoch_parking before it unchanged; with both parking
\* sets empty it changes nothing.
FinalizeEpochFrame ==
    [][(last'.call = "commit_inherent" /\ last'.inherent.ty = "FinalizeEpoch")
       => /\ balance' = balance
          /\ \A a \in Addresses \ previous_epoch_parking :
                 /\ active_stake_by_address'[a] = active_stake_by_address[a]
                 /\ inactive_stake_by_address'[a] = inactive_stake_by_address[a]
                 /\ {active_stake_sorted'[i] :
                        i \in {j \in 1..Len(active_stake_sorted') :
                                 active_stake_sorted'[j].staker_address = a}}
                    = {active_stake_sorted[i] :
                        i \in {j \in 1..Len(active_stake_sorted) :
                                 active_stake_sorted[j].staker_address = a}}
          /\ (current_epoch_parking = {} /\ previous_epoch_parking = {})
                 => UNCHANGED contract_vars]_vars

\* A FinalizeEpoch that retired the staker parked in the previous epoch and
\* left alone the other, who has active stake and was parked in the current
\* epoch.
FinalizeEpochFrameWitness ==
    /\ last.call = "commit_inherent" /\ last.inherent.ty = "FinalizeEpoch"
    /\ last.res = "Ok"
    /\ \E a, b \in Addresses :
        /\ a # b
        /\ last.changed = {a}
        /\ get_inactive_balance(Contract, a) > 0
        /\ get_active_balance(Contract, b) > 0
        /\ previous_epoch_parking = {b}

\* C33: once address 1 has committed an Unpark and is not slashed again, no
\* later commit of FinalizeEpoch, however many there are and whatever is
\* committed between them, changes the active entry or the inactive entry of
\* address 1.
UnparkProtects ==
    [][(last'.call = "commit_inherent" /\ last'.inherent.ty = "FinalizeEpoch")
       => /\ active_stake_by_address'[1] = active_stake_by_address[1]
          /\ inactive_stake_by_address'[1] = inactive_stake_by_address[1]
          /\ {active_stake_sorted'[i] :
                 i \in {j \in 1..Len(active_stake_sorted') :
                          active_stake_sorted'[j].staker_address = 1}}
             = {active_stake_sorted[i] :
                 i \in {j \in 1..Len(active_stake_sorted) :
                          active_stake_sorted[j].staker_address = 1}}]_vars

\* After the Unpark of address 1 and at least one more commit, a
\* FinalizeEpoch has retired address 2 and address 1 still has its active
\* stake.
UnparkProtectsWitness ==
    /\ last.call = "commit_inherent" /\ last.inherent.ty = "FinalizeEpoch"
    /\ last.res = "Ok"
    /\ ops >= 2
    /\ last.changed = {2}
    /\ get_active_balance(Contract, 1) > 0

====
